---------------------------- MODULE Spec2Model ----------------------------
(***************************************************************************)
(* MindTriage signal and risk analytics engine.                            *)
(*                                                                         *)
(* The module models the backend of mindtriage (backend/app/main.py,       *)
(* baseline_engine.py, crisis_detector.py): the rapid risk scorer, the     *)
(* crisis detector, the baseline statistics and drift engine, and the      *)
(* daily / micro check-in handlers with their answer tables.               *)
(*                                                                         *)
(* Texts are TLA+ strings and are processed character by character, as the *)
(* Python code does (strip, lower, substring and regular-expression        *)
(* search).  Signal values are exact: integers in units of 1/900, so that  *)
(* (v - 1) / 9 * 10 is exact for every v with at most two decimals.        *)
(* Quantities the code rounds to two decimals are integers in hundredths.  *)
(* Optional values are sequences: None is << >> and a present value v is   *)
(* << v >>.                                                                *)
(***************************************************************************)
EXTENDS Integers, Sequences, FiniteSets, TLC

VARIABLES
    answers_by_slug,   \* compute_rapid_risk: the rapid answers, slug -> text
    rapid_result,      \* compute_rapid_risk: the returned tuple, or None
    texts,             \* detect_crisis: the list of texts
    structured,        \* detect_crisis: the structured flags, key -> value
    crisis_result,     \* detect_crisis: the returned dict, or None
    values,            \* compute_signal_stats: the list of values (units of 1/900)
    total_days,        \* compute_signal_stats: the window length
    stats_result,      \* compute_signal_stats: the returned dict, or None
    signals_today,     \* compute_drift: today's signal vector
    baseline_signals,  \* compute_drift: signal key -> stats
    drift_result,      \* compute_drift: the returned tuple, or None
    answers,           \* table answers: the rows in id order (the id is the position)
    micro_answers,     \* table micro_answers: the rows in id order
    user_baseline,     \* table user_baseline: user id -> row
    baseline_snapshots,\* table baseline_snapshots: the rows in id order
    crisis_events,     \* table crisis_events: the rows in id order
    journal_entries,   \* table journal_entries: the rows in id order
    clock,             \* the server's clock, in seconds (UTC)
    dev_mode,          \* is_dev_mode(): the environment's developer-mode switch
    handled,           \* the number of requests served and of clock advances, by kind
    exchange,          \* the last request served and its response, or None
    rapid_evaluations, \* table rapid_evaluations: the rows in id order
    call,              \* a function under study: the arguments of the call, or None
    returned           \* a function under study: what the call returned, or None

vars == <<answers_by_slug, rapid_result, texts, structured, crisis_result,
          values, total_days, stats_result,
          signals_today, baseline_signals, drift_result,
          answers, micro_answers, user_baseline, baseline_snapshots, crisis_events,
          journal_entries,
          clock, dev_mode, handled, exchange, rapid_evaluations, call, returned>>

rapidVars == <<answers_by_slug, rapid_result>>
crisisVars == <<texts, structured, crisis_result>>
statsVars == <<values, total_days, stats_result>>
driftVars == <<signals_today, baseline_signals, drift_result>>
tableVars == <<answers, micro_answers, user_baseline, baseline_snapshots, crisis_events,
               journal_entries>>
dbVars == <<tableVars, clock, dev_mode, handled, exchange, rapid_evaluations>>
callVars == <<call, returned>>

None == << >>
Some(v) == << v >>

(***************************************************************************)
(* Python built-ins on strings and lists                                   *)
(***************************************************************************)
Ch(s, i) == SubSeq(s, i, i)

UpperChars == "ABCDEFGHIJKLMNOPQRSTUVWXYZ"
LowerChars == "abcdefghijklmnopqrstuvwxyz"
DigitChars == "0123456789"

UpperSet == { Ch(UpperChars, i) : i \in 1..26 }
LowerSet == { Ch(LowerChars, i) : i \in 1..26 }
DigitSet == { Ch(DigitChars, i) : i \in 1..10 }
LowerMap == [c \in UpperSet |-> Ch(LowerChars, CHOOSE i \in 1..26 : Ch(UpperChars, i) = c)]
DigitMap == [c \in DigitSet |-> (CHOOSE i \in 1..10 : Ch(DigitChars, i) = c) - 1]

IsUpper(c) == c \in UpperSet
IsLowerLetter(c) == c \in LowerSet
IsDigitCh(c) == c \in DigitSet
DigitVal(c) == DigitMap[c]
\* \w of the re module on the ASCII texts of the model
IsWordCh(c) == IsLowerLetter(c) \/ IsUpper(c) \/ IsDigitCh(c) \/ c = "_"
IsSpaceCh(c) == c \in {" ", "\t", "\n"}

LowerCh(c) == IF IsUpper(c) THEN LowerMap[c] ELSE c

\* str.lower(), one half of the string after the other
RECURSIVE StrLower(_)
StrLower(s) ==
    IF s = "" THEN ""
    ELSE IF Len(s) = 1 THEN LowerCh(s)
    ELSE StrLower(SubSeq(s, 1, Len(s) \div 2)) \o StrLower(SubSeq(s, Len(s) \div 2 + 1, Len(s)))

RECURSIVE LStrip(_)
LStrip(s) == IF s # "" /\ IsSpaceCh(Head(s)) THEN LStrip(Tail(s)) ELSE s

RECURSIVE RStrip(_)
RStrip(s) ==
    IF s # "" /\ IsSpaceCh(Ch(s, Len(s))) THEN RStrip(SubSeq(s, 1, Len(s) - 1)) ELSE s

StrStrip(s) == RStrip(LStrip(s))

\* needle in hay
StrContains(hay, needle) ==
    \E i \in 1..(Len(hay) - Len(needle) + 1) : SubSeq(hay, i, i + Len(needle) - 1) = needle

\* str.isdigit()
StrIsDigit(s) == s # "" /\ \A i \in 1..Len(s) : IsDigitCh(Ch(s, i))

RECURSIVE DigitsOf(_)
DigitsOf(s) ==
    IF s = "" THEN ""
    ELSE (IF IsDigitCh(Head(s)) THEN Head(s) ELSE "") \o DigitsOf(Tail(s))

RECURSIVE StrToInt(_)
StrToInt(s) == IF s = "" THEN 0 ELSE StrToInt(SubSeq(s, 1, Len(s) - 1)) * 10 + DigitVal(Ch(s, Len(s)))

\* " ".join(list) and friends
RECURSIVE StrJoin(_, _)
StrJoin(sep, list) ==
    IF list = << >> THEN ""
    ELSE IF Len(list) = 1 THEN list[1]
    ELSE list[1] \o sep \o StrJoin(sep, Tail(list))

SeqToSet(q) == { q[i] : i \in 1..Len(q) }

\* list(dict.fromkeys(list)): the first occurrence of each element, in order
RECURSIVE DictFromKeys(_)
DictFromKeys(q) ==
    IF q = << >> THEN << >>
    ELSE LET init == DictFromKeys(SubSeq(q, 1, Len(q) - 1))
             last == q[Len(q)]
         IN IF last \in SeqToSet(init) THEN init ELSE Append(init, last)

\* dict.get(key, default)
DictGet(d, k, default) == IF k \in DOMAIN d THEN d[k] ELSE default

MaxOf(a, b) == IF a >= b THEN a ELSE b
MinOf(a, b) == IF a <= b THEN a ELSE b

(***************************************************************************)
(* Rapid risk scorer (main.py)                                             *)
(***************************************************************************)
parse_numeric(text) ==
    LET cleaned == DigitsOf(text)
    IN IF cleaned = "" THEN None ELSE Some(StrToInt(cleaned))

is_yes(value) ==
    IF value = "" THEN None
    ELSE LET lowered == StrLower(StrStrip(value))
         IN IF lowered \in {"yes", "y", "true", "1"} THEN Some(TRUE)
            ELSE IF lowered \in {"no", "n", "false", "0"} THEN Some(FALSE)
            ELSE None

is_choice(value, target) == StrLower(StrStrip(value)) = StrLower(StrStrip(target))

recommended_actions(level) ==
    IF level = "RED" THEN
        <<"Pause and focus on slow breathing for 2 minutes.",
          "Move to a safer, quieter space if possible.",
          "Reach out to someone you trust and let them know you need support.">>
    ELSE IF level = "YELLOW" THEN
        <<"Do a 2-minute grounding exercise (name 5 things you can see).",
          "Drink water and take a short break from screens.",
          "Write down one small next step you can do today.">>
    ELSE
        <<"Take a slow breath and notice how your body feels.",
          "Pick one small, kind action for yourself in the next hour.",
          "Stay connected to a supportive person if you can.">>

crisis_resources ==
    <<"If you feel unsafe, contact local emergency services.",
      "Reach out to a trusted person or local crisis line.",
      "If you are in the U.S., you can call or text 988 for immediate support.">>

RED_THRESHOLD == 12
YELLOW_THRESHOLD == 6
PLAN_FLOOR == 18

\* The additive rules in the order of the code: each is <<triggered, signal, weight, reason>>.
RapidRules(a) ==
    LET mood_value == parse_numeric(DictGet(a, "rapid_mood", ""))
        anxiety_value == parse_numeric(DictGet(a, "rapid_anxiety", ""))
    IN << <<mood_value # None /\ mood_value[1] <= 3, "low_mood", 3, "Low mood rating">>,
          <<anxiety_value # None /\ anxiety_value[1] >= 8, "high_anxiety", 3, "High anxiety rating">>,
          <<is_yes(DictGet(a, "rapid_hopeless", "")) = Some(TRUE), "hopelessness", 4, "Reported hopelessness">>,
          <<is_yes(DictGet(a, "rapid_isolation", "")) = Some(TRUE), "isolation", 2, "Reported isolation">>,
          <<is_choice(DictGet(a, "rapid_sleep", ""), "Poor"), "poor_sleep", 1, "Poor sleep">>,
          <<is_choice(DictGet(a, "rapid_appetite", ""), "Poor"), "low_appetite", 1, "Low appetite">>,
          <<is_yes(DictGet(a, "rapid_support", "")) = Some(FALSE), "limited_support", 1, "Limited support right now">>,
          <<is_yes(DictGet(a, "rapid_substance", "")) = Some(TRUE), "substance_use", 1, "Substance use today">>,
          <<is_yes(DictGet(a, "rapid_self_harm_thoughts", "")) = Some(TRUE), "self_harm_thoughts", 6, "Self-harm thoughts">> >>

\* The explanations appended by the first n rules, and their total weight.
RECURSIVE RapidExplanations(_, _)
RapidExplanations(rules, n) ==
    IF n = 0 THEN << >>
    ELSE LET rest == RapidExplanations(rules, n - 1)
             r == rules[n]
         IN IF r[1] THEN Append(rest, [signal |-> r[2], weight |-> r[3], reason |-> r[4]])
            ELSE rest

RECURSIVE SumWeights(_)
SumWeights(expl) == IF expl = << >> THEN 0 ELSE expl[1].weight + SumWeights(Tail(expl))

RapidLevelPlanMutant(self_harm_plan, score) ==
    IF score >= RED_THRESHOLD THEN "RED"
    ELSE IF score >= YELLOW_THRESHOLD THEN "YELLOW"
    ELSE "GREEN"

\* The if / elif chain that picks the level.
RapidLevel(self_harm_plan, score) ==
    IF self_harm_plan THEN "RED"
    ELSE IF score >= RED_THRESHOLD THEN "RED"
    ELSE IF score >= YELLOW_THRESHOLD THEN "YELLOW"
    ELSE "GREEN"

RapidGuidanceMutant(self_harm_plan, score) ==
    IF self_harm_plan THEN Some(crisis_resources) ELSE None

\* crisis_guidance: set in the plan branch and in the score >= 12 branch.
RapidGuidance(self_harm_plan, score) ==
    IF self_harm_plan THEN Some(crisis_resources)
    ELSE IF score >= RED_THRESHOLD THEN Some(crisis_resources)
    ELSE None

RapidAdditiveScoreMutant(a) ==
    LET rules == RapidRules(a)
    IN SumWeights(RapidExplanations([rules EXCEPT ![9] = <<rules[9][1], rules[9][2], 4, rules[9][4]>>], 9))

\* score after the nine additive rules
RapidAdditiveScore(a) == SumWeights(RapidExplanations(RapidRules(a), 9))

compute_rapid_risk(a) ==
    LET additive == RapidExplanations(RapidRules(a), 9)
        before == RapidAdditiveScore(a)
        self_harm_plan == is_yes(DictGet(a, "rapid_self_harm_plan", "")) = Some(TRUE)
        score == IF self_harm_plan THEN MaxOf(before, PLAN_FLOOR) ELSE before
        explanations ==
            IF self_harm_plan
            THEN Append(additive, [signal |-> "self_harm_plan",
                                   weight |-> MaxOf(0, score - before),
                                   reason |-> "Self-harm plan or intent"])
            ELSE additive
        level == RapidLevel(self_harm_plan, before)
        signals == [i \in 1..Len(explanations) |-> explanations[i].reason]
    IN [level |-> level,
        score |-> score,
        signals |-> DictFromKeys(signals),
        explanations |-> explanations,
        actions |-> recommended_actions(level),
        crisis_guidance |-> RapidGuidance(self_harm_plan, before)]


(***************************************************************************)
(* Crisis detector (crisis_detector.py)                                    *)
(***************************************************************************)
\* HIGH_PATTERNS.  Every pattern is \b <one of alts> \b; name is what
\* pattern.strip(r"\b") leaves of the pattern.
HIGH_PATTERNS ==
    << [name |-> "kill myself", alts |-> {"kill myself"}],
       [name |-> "i will kill myself", alts |-> {"i will kill myself"}],
       [name |-> "i am going to kill myself", alts |-> {"i am going to kill myself"}],
       [name |-> "commit suicide", alts |-> {"commit suicide"}],
       [name |-> "suicide", alts |-> {"suicide"}],
       [name |-> "suicidal", alts |-> {"suicidal"}],
       [name |-> "end my life", alts |-> {"end my life"}],
       [name |-> "end it all", alts |-> {"end it all"}],
       [name |-> "want to die", alts |-> {"want to die"}],
       [name |-> "plan to (die|kill myself|end my life|end it)",
        alts |-> {"plan to die", "plan to kill myself", "plan to end my life", "plan to end it"}] >>

ELEVATED_TERMS ==
    <<"self-harm", "self harm", "hurt myself", "cut myself", "overdose",
      "no reason to live", "can't go on", "cant go on", "no way out",
      "better off dead", "end it", "hopeless">>

SELF_HARM_HINT_TERMS == {"self-harm", "self harm", "hurt myself", "cut myself"}
ALARMING_TERMS == {"can't go on", "no way out", "better off dead"}

\* re.search(r"\bphrase\b", text) for a phrase that starts and ends with a word
\* character: an occurrence with no word character right before or after it.
WordBoundarySearch(text, phrase) ==
    \E i \in 1..(Len(text) - Len(phrase) + 1) :
        /\ SubSeq(text, i, i + Len(phrase) - 1) = phrase
        /\ (i = 1 \/ ~IsWordCh(Ch(text, i - 1)))
        /\ (i + Len(phrase) - 1 = Len(text) \/ ~IsWordCh(Ch(text, i + Len(phrase))))

PatternSearch(text, pattern) == \E phrase \in pattern.alts : WordBoundarySearch(text, phrase)

RECURSIVE FindMatchesUpTo(_, _, _)
FindMatchesUpTo(text, patterns, n) ==
    IF n = 0 THEN << >>
    ELSE LET rest == FindMatchesUpTo(text, patterns, n - 1)
         IN IF PatternSearch(text, patterns[n]) THEN Append(rest, patterns[n].name) ELSE rest

_find_matches(text, patterns) == FindMatchesUpTo(text, patterns, Len(patterns))

\* Values of the structured dict: a Python None, bool, int or str.
PyNone == [t |-> "none"]
PyBool(b) == [t |-> "bool", b |-> b]
PyInt(n) == [t |-> "int", n |-> n]
PyStr(x) == [t |-> "str", s |-> x]

\* bool(v)
Truthy(v) ==
    CASE v.t = "none" -> FALSE
      [] v.t = "bool" -> v.b
      [] v.t = "int" -> v.n # 0
      [] v.t = "str" -> v.s # ""

\* isinstance(v, (int, float)): bool is a subclass of int
IsNumber(v) == v.t \in {"int", "bool"}
NumberOf(v) == IF v.t = "bool" THEN (IF v.b THEN 1 ELSE 0) ELSE v.n

\* v is True
IsTrue(v) == v.t = "bool" /\ v.b

SeqFilterIn(terms, text) ==
    LET F[n \in 0..Len(terms)] ==
            IF n = 0 THEN << >>
            ELSE IF StrContains(text, terms[n]) THEN Append(F[n - 1], terms[n]) ELSE F[n - 1]
    IN F[Len(terms)]

CrisisCombined(txts) == StrLower(StrJoin(" ", txts))

\* high_matches: the HIGH patterns found, plus "self_harm_plan" for a structured flag
HighMatches(combined, st) ==
    LET found == _find_matches(combined, HIGH_PATTERNS)
    IN IF Truthy(DictGet(st, "self_harm_plan", PyNone)) \/ Truthy(DictGet(st, "self_harm_intent", PyNone))
       THEN Append(found, "self_harm_plan")
       ELSE found

ElevatedConditionMutant(combined, st) ==
    LET hopelessness_score == DictGet(st, "hopelessness_score", PyNone)
        high_risk_score == DictGet(st, "risk_score", PyNone)
        hopeless_flag == IsNumber(hopelessness_score) /\ NumberOf(hopelessness_score) > 8
        self_harm_hint ==
            \/ IsTrue(DictGet(st, "self_harm_thoughts", PyNone))
            \/ \E term \in SELF_HARM_HINT_TERMS : StrContains(combined, term)
        alarming_text == \E term \in ALARMING_TERMS : StrContains(combined, term)
        high_risk == IsNumber(high_risk_score) /\ NumberOf(high_risk_score) >= 18
    IN (hopeless_flag /\ self_harm_hint) \/ (high_risk /\ alarming_text)

\* The condition of the elevated return.
ElevatedCondition(combined, st) ==
    LET hopelessness_score == DictGet(st, "hopelessness_score", PyNone)
        high_risk_score == DictGet(st, "risk_score", PyNone)
        hopeless_flag == IsNumber(hopelessness_score) /\ NumberOf(hopelessness_score) >= 8
        self_harm_hint ==
            \/ IsTrue(DictGet(st, "self_harm_thoughts", PyNone))
            \/ \E term \in SELF_HARM_HINT_TERMS : StrContains(combined, term)
        alarming_text == \E term \in ALARMING_TERMS : StrContains(combined, term)
        high_risk == IsNumber(high_risk_score) /\ NumberOf(high_risk_score) >= 18
    IN (hopeless_flag /\ self_harm_hint) \/ (high_risk /\ alarming_text)

detect_crisis_ElevatedFirst(txts, st) ==
    LET combined == CrisisCombined(txts)
        high_matches == HighMatches(combined, st)
        elevated_matches == SeqFilterIn(ELEVATED_TERMS, combined)
    IN IF ElevatedCondition(combined, st) THEN
           [is_crisis |-> TRUE, level |-> "elevated",
            matched_terms |-> DictFromKeys(elevated_matches),
            reason |-> "Elevated risk signals with distress language."]
       ELSE IF high_matches # << >> THEN
           [is_crisis |-> TRUE, level |-> "high",
            matched_terms |-> DictFromKeys(high_matches),
            reason |-> "Explicit self-harm intent or plan detected."]
       ELSE
           [is_crisis |-> FALSE, level |-> "none",
            matched_terms |-> DictFromKeys(elevated_matches),
            reason |-> ""]

detect_crisis(txts, st) ==
    LET combined == CrisisCombined(txts)
        high_matches == HighMatches(combined, st)
        elevated_matches == SeqFilterIn(ELEVATED_TERMS, combined)
    IN IF high_matches # << >> THEN
           [is_crisis |-> TRUE, level |-> "high",
            matched_terms |-> DictFromKeys(high_matches),
            reason |-> "Explicit self-harm intent or plan detected."]
       ELSE IF ElevatedCondition(combined, st) THEN
           [is_crisis |-> TRUE, level |-> "elevated",
            matched_terms |-> DictFromKeys(elevated_matches),
            reason |-> "Elevated risk signals with distress language."]
       ELSE
           [is_crisis |-> FALSE, level |-> "none",
            matched_terms |-> DictFromKeys(elevated_matches),
            reason |-> ""]

(***************************************************************************)
(* Baseline statistics and drift (baseline_engine.py)                      *)
(*                                                                         *)
(* Signal values are integers in units of 1/900: 4500 is 5.0.  Means,      *)
(* medians, deviations, deltas, z-scores, coverage and confidence, which   *)
(* the code rounds to two decimals, are integers in hundredths: 7000 is a  *)
(* coverage of 70.0.                                                       *)
(***************************************************************************)
SIGNAL_KEYS ==
    <<"mood_score", "anxiety_score", "sleep_hours", "energy_score",
      "social_score", "hopelessness_score">>

\* round(num / den) to the nearest integer, ties to even (den > 0).  Python rounds
\* the binary float, so at an exact decimal tie (-0.525) its result depends on the
\* float's error; the inputs of the specifications below produce no such tie.
RoundHalfEven(num, den) ==
    LET q == num \div den
        r == num - q * den
    IN IF 2 * r < den THEN q
       ELSE IF 2 * r > den THEN q + 1
       ELSE IF q % 2 = 0 THEN q ELSE q + 1

clamp(value, low, high) == MaxOf(low, MinOf(high, value))

RECURSIVE SeqSum(_)
SeqSum(q) == IF q = << >> THEN 0 ELSE q[1] + SeqSum(Tail(q))

RECURSIVE Insert(_, _)
Insert(x, sorted) ==
    IF sorted = << >> THEN <<x>>
    ELSE IF x <= sorted[1] THEN <<x>> \o sorted
    ELSE <<sorted[1]>> \o Insert(x, Tail(sorted))

RECURSIVE Sorted(_)
Sorted(q) == IF q = << >> THEN << >> ELSE Insert(q[1], Sorted(Tail(q)))

\* round(x, 2) of a value in units of 1/900, in hundredths
Round2(x) == RoundHalfEven(x, 9)

\* round(statistics.mean(values), 2)
StatMean(vals) == RoundHalfEven(SeqSum(vals), 9 * Len(vals))

\* round(statistics.median(values), 2)
StatMedian(vals) ==
    LET srt == Sorted(vals)
        n == Len(vals)
    IN IF n % 2 = 1 THEN Round2(srt[(n + 1) \div 2])
       ELSE RoundHalfEven(srt[n \div 2] + srt[n \div 2 + 1], 18)

\* The largest r with r * r <= n, searched in lo..hi
RECURSIVE SqrtSearch(_, _, _)
SqrtSearch(lo, hi, n) ==
    IF lo >= hi THEN lo
    ELSE LET mid == (lo + hi + 1) \div 2
         IN IF mid * mid <= n THEN SqrtSearch(mid, hi, n) ELSE SqrtSearch(lo, mid - 1, n)

ISqrt(n) == SqrtSearch(0, 46340, n)

\* floor(2 * sqrt(n)), computed from ISqrt(n) so that 4 * n is never formed
ISqrt4(n) == LET r == ISqrt(n) IN IF n - r * r > r THEN 2 * r + 1 ELSE 2 * r

\* round(statistics.pstdev(values), 2): the hundredth nearest to
\* sqrt(n * sum(x^2) - sum(x)^2) / n, the deviations x taken from the floor of the
\* mean (the result does not depend on the origin; the numbers stay small)
StatPstdev(vals) ==
    LET n == Len(vals)
        origin == SeqSum(vals) \div n
        dev == [i \in 1..n |-> vals[i] - origin]
        sq == [i \in 1..n |-> dev[i] * dev[i]]
        d == n * SeqSum(sq) - SeqSum(dev) * SeqSum(dev)
    IN (ISqrt4(d) + 9 * n) \div (18 * n)

MIN_SAMPLES == 7
MIN_COVERAGE == 7000

\* coverage = round((sample_days / total_days) * 100, 2) if total_days else 0.0
StatCoverage(sample_days, days) ==
    IF days # 0 THEN RoundHalfEven(sample_days * 10000, days) ELSE 0

StatGateMutant(sample_days, coverage) == sample_days >= MIN_SAMPLES \/ coverage >= MIN_COVERAGE

\* if sample_days >= 7 and coverage >= 70.0
StatGate(sample_days, coverage) == sample_days >= MIN_SAMPLES /\ coverage >= MIN_COVERAGE

compute_signal_stats(vals, days) ==
    LET sample_days == Len(vals)
        coverage == StatCoverage(sample_days, days)
        gate == StatGate(sample_days, coverage)
    IN [mean |-> IF gate THEN Some(StatMean(vals)) ELSE None,
        median |-> IF gate THEN Some(StatMedian(vals)) ELSE None,
        std |-> IF gate THEN Some(IF sample_days >= 2 THEN StatPstdev(vals) ELSE 0) ELSE None,
        coverage_percent |-> coverage,
        samples |-> sample_days]

\* Stats dicts may lack keys (the tests pass dicts without median and samples):
\* stat.get(name) is None for a missing key.
StatField(stat, name) == IF name \in DOMAIN stat THEN stat[name] ELSE None

\* round(clamp(0.5 * baseline_coverage + 0.5 * today_coverage, 0.05, 0.95), 2).  The
\* value can be an exact tie (0.575); there Python's result follows the float's error
\* and may be the hundredth below the one computed here.
compute_confidence(baseline_signal_stats, today) ==
    IF DOMAIN baseline_signal_stats = {} THEN 20
    ELSE LET keys == {k \in DOMAIN baseline_signal_stats :
                          /\ DOMAIN baseline_signal_stats[k] # {}
                          /\ "coverage_percent" \in DOMAIN baseline_signal_stats[k]}
             RECURSIVE CoverageSum(_)
             CoverageSum(ks) ==
                 IF ks = {} THEN 0
                 ELSE LET k == CHOOSE x \in ks : TRUE
                      IN baseline_signal_stats[k].coverage_percent + CoverageSum(ks \ {k})
             n == Cardinality(keys)
             t == Cardinality(DOMAIN today)
             \* 100 * (0.5 * baseline_coverage + 0.5 * today_coverage) as num / den
             num == IF n = 0 THEN 5000 * t ELSE 3 * CoverageSum(keys) + 5000 * n * t
             den == IF n = 0 THEN 600 ELSE 600 * n
         IN IF num < 5 * den THEN 5
            ELSE IF num > 95 * den THEN 95
            ELSE RoundHalfEven(num, den)

DRIFT_THRESHOLD == 100

\* The z-score branch returns only for down and up; otherwise control falls
\* through to the delta thresholds.
classify_drift(delta, z_score) ==
    IF delta = None THEN "missing"
    ELSE IF z_score # None /\ z_score[1] <= -DRIFT_THRESHOLD THEN "down"
    ELSE IF z_score # None /\ z_score[1] >= DRIFT_THRESHOLD THEN "up"
    ELSE IF delta[1] <= -DRIFT_THRESHOLD THEN "down"
    ELSE IF delta[1] >= DRIFT_THRESHOLD THEN "up"
    ELSE "stable"

build_drift_message(signal_key, status) ==
    IF status \notin {"up", "down"} THEN None
    ELSE IF signal_key = "sleep_hours" THEN
        Some(IF status = "down" THEN "Sleep is lower than your 2-week baseline."
             ELSE "Sleep is higher than your 2-week baseline.")
    ELSE IF signal_key = "anxiety_score" THEN
        Some(IF status = "up" THEN "Anxiety is higher than usual." ELSE "Anxiety is lower than usual.")
    ELSE IF signal_key = "mood_score" THEN
        Some(IF status = "down" THEN "Mood is lower than your baseline."
             ELSE "Mood is higher than your baseline.")
    ELSE IF signal_key = "energy_score" THEN
        Some(IF status = "down" THEN "Energy is lower than your baseline."
             ELSE "Energy is higher than your baseline.")
    ELSE IF signal_key = "social_score" THEN
        Some(IF status = "up" THEN "Isolation signals are higher than usual."
             ELSE "Isolation signals are lower than usual.")
    ELSE IF signal_key = "hopelessness_score" THEN
        Some(IF status = "up" THEN "Hopelessness signals are higher than usual."
             ELSE "Hopelessness signals are lower than usual.")
    ELSE None

GROUNDING_MESSAGE ==
    "Several signals are lower than your baseline. Try a 5-minute grounding or breathing exercise."
STABLE_MESSAGE ==
    "Signals look stable compared to your baseline. Keep using the check-in to track changes."
MAX_RECOMMENDATIONS == 5

\* The directional messages of the first n keys of the drift dict, in its order.
RECURSIVE DirectionalMessages(_, _, _)
DirectionalMessages(drift, order, n) ==
    IF n = 0 THEN << >>
    ELSE LET rest == DirectionalMessages(drift, order, n - 1)
             message == build_drift_message(order[n], drift[order[n]].status)
         IN IF message # None THEN Append(rest, message[1]) ELSE rest

Take(q, n) == SubSeq(q, 1, MinOf(n, Len(q)))

build_recommendations_CapFirst(drift, order) ==
    LET directional == Take(DirectionalMessages(drift, order, Len(order)), MAX_RECOMMENDATIONS)
        down_signals == Cardinality({i \in 1..Len(order) : drift[order[i]].status = "down"})
        with_grounding ==
            IF down_signals >= 2 THEN Append(directional, GROUNDING_MESSAGE) ELSE directional
    IN IF with_grounding = << >> THEN <<STABLE_MESSAGE>> ELSE with_grounding

\* build_recommendations over a drift dict whose keys were inserted in `order`
build_recommendations(drift, order) ==
    LET directional == DirectionalMessages(drift, order, Len(order))
        down_signals == Cardinality({i \in 1..Len(order) : drift[order[i]].status = "down"})
        with_grounding ==
            IF down_signals >= 2 THEN Append(directional, GROUNDING_MESSAGE) ELSE directional
        messages ==
            IF with_grounding = << >> THEN <<STABLE_MESSAGE>> ELSE with_grounding
    IN Take(messages, MAX_RECOMMENDATIONS)

Abs(x) == IF x < 0 THEN -x ELSE x

ZGuardMutant(std) == std # None

\* if std and std > 0
ZGuard(std) == std # None /\ std[1] # 0 /\ std[1] > 0

\* if today_value is not None and mean is not None
DeltaGuard(today_value, mean) == today_value # None /\ mean # None

\* One iteration of the loop over SIGNAL_KEYS.  raised: the iteration divides by a
\* zero std (Python raises ZeroDivisionError).
DriftEntry(key, today, baseline_sigs) ==
    LET Entry(delta, z_score, raised) ==
            [delta |-> delta, z |-> z_score, status |-> classify_drift(delta, z_score),
             raised |-> raised]
        \* z_score = round(delta / std, 2)
        Scored(std, delta, has_z) ==
            Entry(delta,
                  IF has_z /\ std[1] # 0 THEN Some(RoundHalfEven(delta[1] * 100, std[1])) ELSE None,
                  has_z /\ std[1] = 0)
        \* delta = round(today_value - mean, 2)
        Guarded(mean, std, today_value, has_delta) ==
            Scored(std,
                   IF has_delta THEN Some(Round2(today_value[1] - 9 * mean[1])) ELSE None,
                   has_delta /\ ZGuard(std))
        Fields(mean, std, today_value) ==
            Guarded(mean, std, today_value, DeltaGuard(today_value, mean))
        Baseline(baseline) ==
            Fields(StatField(baseline, "mean"), StatField(baseline, "std"),
                   IF key \in DOMAIN today THEN Some(today[key]) ELSE None)
    IN Baseline(DictGet(baseline_sigs, key, << >>))

\* top_changes.sort(key=lambda item: abs(item["delta"]), reverse=True): stable
RECURSIVE InsertChange(_, _)
InsertChange(x, sorted) ==
    IF sorted = << >> THEN <<x>>
    ELSE IF Abs(x.delta) >= Abs(sorted[1].delta) THEN <<x>> \o sorted
    ELSE <<sorted[1]>> \o InsertChange(x, Tail(sorted))

RECURSIVE SortChanges(_)
SortChanges(q) == IF q = << >> THEN << >> ELSE InsertChange(q[1], SortChanges(Tail(q)))

RECURSIVE TopChangesUpTo(_, _)
TopChangesUpTo(drift, n) ==
    IF n = 0 THEN << >>
    ELSE LET key == SIGNAL_KEYS[n]
             info == drift[key]
             Add(rest) ==
                 IF info.delta = None THEN rest
                 ELSE Append(rest, [signal |-> key, delta |-> info.delta[1],
                                    message |-> build_drift_message(key, info.status)])
         IN Add(TopChangesUpTo(drift, n - 1))

compute_drift(today, baseline_sigs) ==
    LET Result(entries, drift) ==
            [raised |-> \E key \in SeqToSet(SIGNAL_KEYS) : entries[key].raised,
             drift |-> drift,
             top_changes |-> Take(SortChanges(TopChangesUpTo(drift, Len(SIGNAL_KEYS))), 3),
             confidence |-> compute_confidence(baseline_sigs, today),
             recommendations |-> build_recommendations(drift, SIGNAL_KEYS)]
        Entries(entries) ==
            Result(entries,
                   [key \in SeqToSet(SIGNAL_KEYS) |->
                       [delta |-> entries[key].delta, z |-> entries[key].z,
                        status |-> entries[key].status]])
    IN Entries([key \in SeqToSet(SIGNAL_KEYS) |-> DriftEntry(key, today, baseline_sigs)])

(***************************************************************************)
(* Normalisation of answers into signals (baseline_engine.py)              *)
(***************************************************************************)
\* The first position where -?\d+ matches, or 0
FirstNumberStart(text) ==
    LET starts == {i \in 1..Len(text) :
                       \/ IsDigitCh(Ch(text, i))
                       \/ Ch(text, i) = "-" /\ i < Len(text) /\ IsDigitCh(Ch(text, i + 1))}
    IN IF starts = {} THEN 0 ELSE CHOOSE i \in starts : \A j \in starts : i <= j

\* The length of the run of digits that starts at position i
RECURSIVE DigitRun(_, _)
DigitRun(text, i) ==
    IF i <= Len(text) /\ IsDigitCh(Ch(text, i)) THEN 1 + DigitRun(text, i + 1) ELSE 0

RECURSIVE Pow10(_)
Pow10(k) == IF k = 0 THEN 1 ELSE 10 * Pow10(k - 1)

\* float(re.search(r"(-?\d+(\.\d+)?)", text).group(1)), in units of 1/900 (exact for
\* numbers with at most two decimals)
\* The number whose digits start at position p of text: n digits, then, when m > 0,
\* a point and m digits
NumberAt(text, p, n, m) ==
    StrToInt(SubSeq(text, p, p + n - 1)) * 900
        + (IF m > 0 THEN (StrToInt(SubSeq(text, p + n + 1, p + n + m)) * 900) \div Pow10(m) ELSE 0)

\* The length of the run of digits after a point at position q, or 0
FractionRun(text, q) ==
    IF q < Len(text) /\ Ch(text, q) = "." THEN DigitRun(text, q + 1) ELSE 0

parse_first_number(text) ==
    LET Digits(p, n) == NumberAt(text, p, n, FractionRun(text, p + n))
        Match(start) ==
            IF start = 0 THEN None
            ELSE IF Ch(text, start) = "-"
            THEN Some(-Digits(start + 1, DigitRun(text, start + 1)))
            ELSE Some(Digits(start, DigitRun(text, start)))
    IN IF text = "" THEN None ELSE Match(FirstNumberStart(text))

\* normalize_scale without the final clamp
normalize_scale_Unclamped(value, source_min, source_max, target_max) ==
    IF source_max = source_min THEN value
    ELSE ((value - 900 * source_min) * target_max) \div (source_max - source_min)

\* value in units of 1/900; source_min, source_max and target_max are whole numbers
normalize_scale(value, source_min, source_max, target_max) ==
    IF source_max = source_min THEN clamp(value, 0, 900 * target_max)
    ELSE clamp(((value - 900 * source_min) * target_max) \div (source_max - source_min),
               0, 900 * target_max)

\* A reading that takes every unrecognised answer for a no (not the code's)
normalize_yes_no_ElseNo(text) ==
    LET Flag(lowered) ==
            IF lowered \in {"yes", "y", "true", "1"} THEN Some(TRUE)
            ELSE Some(FALSE)
    IN Flag(StrLower(StrStrip(text)))

normalize_yes_no(text) ==
    LET Flag(lowered) ==
            IF lowered \in {"yes", "y", "true", "1"} THEN Some(TRUE)
            ELSE IF lowered \in {"no", "n", "false", "0"} THEN Some(FALSE)
            ELSE None
    IN Flag(StrLower(StrStrip(text)))

normalize_social_value(category, raw) ==
    LET Social(lowered, flag) ==
            IF category = "isolation" THEN
                (IF flag = None THEN None ELSE Some(IF flag[1] THEN 9000 ELSE 0))
            ELSE IF category = "support" THEN
                (IF flag = None THEN None ELSE Some(IF flag[1] THEN 0 ELSE 9000))
            ELSE IF category = "connection" /\ lowered = "connected" THEN Some(0)
            ELSE IF category = "connection" /\ lowered = "neutral" THEN Some(4500)
            ELSE IF category = "connection" /\ lowered = "isolated" THEN Some(9000)
            ELSE None
    IN Social(StrLower(StrStrip(raw)), normalize_yes_no(raw))

\* The signal of a daily answer, given what the parsers make of its text
DailySignal(category, numeric, flag, social_value) ==
       IF category = "" THEN None
       ELSE IF category \in {"mood", "anxiety", "energy"} THEN
           (IF numeric = None THEN None
            ELSE Some([key |-> category \o "_score", value |-> normalize_scale(numeric[1], 1, 10, 10)]))
       ELSE IF category = "sleep" THEN
           (IF numeric = None THEN None
            ELSE Some([key |-> "sleep_hours", value |-> clamp(numeric[1], 0, 12 * 900)]))
       ELSE IF category = "hopelessness" THEN
           (IF numeric # None THEN
                Some([key |-> "hopelessness_score", value |-> normalize_scale(numeric[1], 1, 10, 10)])
            ELSE IF flag = None THEN None
            ELSE Some([key |-> "hopelessness_score", value |-> IF flag[1] THEN 9000 ELSE 0]))
       ELSE IF category \in {"isolation", "support", "connection"} THEN
           (IF social_value = None THEN None
            ELSE Some([key |-> "social_score", value |-> social_value[1]]))
       ELSE None

\* None, or Some of the pair (signal key, value)
normalize_daily_answer(category, answer_text) ==
    DailySignal(category, parse_first_number(answer_text), normalize_yes_no(answer_text),
                normalize_social_value(category, answer_text))

\* The signal of a micro answer, given what the parsers make of its value
MicroSignal(category, numeric, social_value) ==
       IF category = "" THEN None
       ELSE IF category \in {"mood", "anxiety", "energy", "hopelessness"} THEN
           (IF numeric = None THEN None
            ELSE Some([key |-> IF category = "hopelessness" THEN "hopelessness_score"
                               ELSE category \o "_score",
                       value |-> IF numeric[1] <= 5 * 900
                                 THEN normalize_scale(numeric[1], 1, 5, 10)
                                 ELSE normalize_scale(numeric[1], 1, 10, 10)]))
       ELSE IF category \in {"isolation", "support", "connection"} THEN
           (IF social_value = None THEN None
            ELSE Some([key |-> "social_score", value |-> social_value[1]]))
       ELSE None

\* None, or Some of the pair (signal key, value)
normalize_micro_answer(category, value_raw) ==
    MicroSignal(category, parse_first_number(value_raw),
                normalize_social_value(category, value_raw))

(***************************************************************************)
(* Input quality (main.py)                                                 *)
(***************************************************************************)
\* The length of the run of word characters that starts at position i
RECURSIVE WordRun(_, _)
WordRun(s, i) == IF i <= Len(s) /\ IsWordCh(Ch(s, i)) THEN 1 + WordRun(s, i + 1) ELSE 0

\* re.findall(r"\b\w+\b", s): the maximal runs of word characters, from position i on
RECURSIVE TokensFrom(_, _)
TokensFrom(s, i) ==
    IF i > Len(s) THEN << >>
    ELSE IF IsWordCh(Ch(s, i)) THEN
        LET n == WordRun(s, i) IN <<SubSeq(s, i, i + n - 1)>> \o TokensFrom(s, i + n)
    ELSE TokensFrom(s, i + 1)

Tokens(s) == TokensFrom(s, 1)

\* re.search(r"(.)\1{4,}", s): a character other than a newline, five times in a row
HasRepeatedCharacters(s) ==
    \E i \in 1..(Len(s) - 4) :
        Ch(s, i) # "\n" /\ \A j \in 1..4 : Ch(s, i + j) = Ch(s, i)

ConsonantSet == { Ch("bcdfghjklmnpqrstvwxyz", i) : i \in 1..21 }

\* re.search(r"[bcdfghjklmnpqrstvwxyz]{5,}", s)
HasKeyboardSmash(s) ==
    \E i \in 1..(Len(s) - 4) : \A j \in 0..4 : Ch(s, i + j) \in ConsonantSet

PROFANITY == {"fuck", "shit", "bitch", "asshole", "damn", "cunt"}

QUALITY_DEDUCTIONS ==
    [too_short |-> 15, low_word_count |-> 15, repeated_characters |-> 10,
     repeated_tokens |-> 10, keyboard_smash |-> 10, profanity_only |-> 20,
     duplicate_recent |-> 25, rapid_submissions |-> 10, repeated_across_fields |-> 10]

QUALITY_LABELS ==
    [too_short |-> "Too short", low_word_count |-> "Not enough words",
     repeated_characters |-> "Repeated characters", repeated_tokens |-> "Repetitive wording",
     keyboard_smash |-> "Looks like keyboard mash", profanity_only |-> "Profanity only",
     duplicate_recent |-> "Same as a recent entry",
     rapid_submissions |-> "Many submissions in a short time",
     repeated_across_fields |-> "Same answer across fields"]

summarize_quality_flags(flags) ==
    IF flags = << >> THEN "Looks good."
    ELSE StrJoin("; ", [i \in 1..MinOf(3, Len(flags)) |-> QUALITY_LABELS[flags[i]]])

RECURSIVE SumDeductions(_)
SumDeductions(flags) ==
    IF flags = << >> THEN 0 ELSE QUALITY_DEDUCTIONS[flags[1]] + SumDeductions(Tail(flags))

LOW_QUALITY_CUTOFF == 60

\* A verdict that counts the cutoff itself as low quality (not the code's)
IsLowQualityScoreAtCutoff(score) == score <= LOW_QUALITY_CUTOFF

IsLowQualityScore(score) == score < LOW_QUALITY_CUTOFF

FlagIf(cond, name) == IF cond THEN <<name>> ELSE << >>

\* The flags of assess_structured_quality, in the order the code appends them
QualityFlags(cleaned_answers, combined, lowered, tokens, is_numeric_only, normalized_recent, short_window_count) ==
    FlagIf(combined = "" \/ (Len(combined) < 4 /\ ~is_numeric_only), "too_short")
    \o FlagIf(combined # "" /\ Len(tokens) < 2 /\ ~is_numeric_only, "low_word_count")
    \o FlagIf(/\ Len(cleaned_answers) >= 2
              /\ Cardinality({StrLower(cleaned_answers[i]) :
                                 i \in {j \in 1..Len(cleaned_answers) : cleaned_answers[j] # ""}}) = 1
              /\ Len(cleaned_answers[1]) >= 4, "repeated_across_fields")
    \o FlagIf(HasRepeatedCharacters(lowered), "repeated_characters")
    \o FlagIf(HasKeyboardSmash(lowered), "keyboard_smash")
    \o FlagIf(tokens # << >> /\ 5 * Cardinality(SeqToSet(tokens)) < 2 * Len(tokens),
              "repeated_tokens")
    \o FlagIf(tokens # << >> /\ SeqToSet(tokens) \subseteq PROFANITY, "profanity_only")
    \o FlagIf(normalized_recent # {} /\ lowered \in normalized_recent, "duplicate_recent")
    \o FlagIf(short_window_count >= 4, "rapid_submissions")

assess_structured_quality(answer_list, recent_texts, short_window_count) ==
    LET Verdict(flags, score) ==
            [quality_score |-> score,
             flags |-> flags,
             is_low_quality |-> IsLowQualityScore(score),
             reason_summary |-> summarize_quality_flags(flags)]
        Scored(flags) == Verdict(flags, MaxOf(0, MinOf(100, 100 - SumDeductions(flags))))
        Lowered(cleaned_answers, combined, lowered) ==
            Scored(QualityFlags(
                cleaned_answers, combined, lowered, Tokens(lowered),
                \A i \in 1..Len(cleaned_answers) :
                    cleaned_answers[i] # "" => StrIsDigit(cleaned_answers[i]),
                {StrLower(StrStrip(recent_texts[i])) : i \in 1..Len(recent_texts)},
                short_window_count))
        Combined(cleaned_answers, combined) ==
            Lowered(cleaned_answers, combined, StrLower(combined))
        Cleaned(cleaned_answers) ==
            Combined(cleaned_answers, StrStrip(StrJoin(" | ", cleaned_answers)))
    IN Cleaned([i \in 1..Len(answer_list) |-> StrStrip(answer_list[i])])

\* The deductions of assess_input_quality; a flag outside the table costs nothing
INPUT_QUALITY_DEDUCTIONS ==
    [too_short |-> 15, low_word_count |-> 15, repeated_characters |-> 10,
     repeated_tokens |-> 10, keyboard_smash |-> 10, profanity_only |-> 20,
     duplicate_recent |-> 25, rapid_submissions |-> 10]

RECURSIVE SumInputDeductions(_)
SumInputDeductions(flags) ==
    IF flags = << >> THEN 0
    ELSE (IF flags[1] \in DOMAIN INPUT_QUALITY_DEDUCTIONS
          THEN INPUT_QUALITY_DEDUCTIONS[flags[1]] ELSE 0)
         + SumInputDeductions(Tail(flags))

\* The flags of assess_input_quality, in the order the code appends them
InputQualityFlags(cleaned, lowered, tokens, normalized_recent, short_window_count) ==
    FlagIf(Len(cleaned) < 30, "too_short")
    \o FlagIf(Len(tokens) < 5, "low_word_count")
    \o FlagIf(HasRepeatedCharacters(lowered), "repeated_characters")
    \o FlagIf(HasKeyboardSmash(lowered), "keyboard_smash")
    \o FlagIf(tokens # << >> /\ 2 * Cardinality(SeqToSet(tokens)) < Len(tokens),
              "repeated_tokens")
    \o FlagIf(tokens # << >> /\ SeqToSet(tokens) \subseteq PROFANITY, "profanity_only")
    \o FlagIf(normalized_recent # {} /\ lowered \in normalized_recent, "duplicate_recent")
    \o FlagIf(short_window_count >= 4, "rapid_submissions")

assess_input_quality(text, recent_texts, short_window_count) ==
    LET Verdict(flags, score) ==
            [quality_score |-> score,
             flags |-> flags,
             is_low_quality |-> IsLowQualityScore(score),
             reason_summary |-> summarize_quality_flags(flags)]
        Scored(flags) == Verdict(flags, MaxOf(0, MinOf(100, 100 - SumInputDeductions(flags))))
        Lowered(cleaned, lowered) ==
            Scored(InputQualityFlags(
                cleaned, lowered, Tokens(lowered),
                {StrLower(StrStrip(recent_texts[i])) : i \in 1..Len(recent_texts)},
                short_window_count))
        Cleaned(cleaned) == Lowered(cleaned, StrLower(cleaned))
    IN Cleaned(StrStrip(text))

(***************************************************************************)
(* Seeded tables (main.py)                                                 *)
(*                                                                         *)
(* seed_questions and seed_micro_questions fill the empty tables in list   *)
(* order, so a question's id is its position.                              *)
(***************************************************************************)
ONBOARDING_QUESTIONS ==
    <<"onb_goals", "onb_sleep", "onb_stress", "onb_work", "onb_relationships",
      "onb_activity", "onb_anxiety", "onb_mood">>

DAILY_CORE ==
    << [slug |-> "daily_mood", category |-> "mood"],
       [slug |-> "daily_anxiety", category |-> "anxiety"],
       [slug |-> "daily_sleep", category |-> "sleep"],
       [slug |-> "daily_energy", category |-> "energy"],
       [slug |-> "daily_stress", category |-> "stress"],
       [slug |-> "daily_focus", category |-> "focus"] >>

DAILY_ROTATING_POOL ==
    << [slug |-> "daily_isolation", category |-> "isolation"],
       [slug |-> "daily_hopeless", category |-> "hopelessness"],
       [slug |-> "daily_irritability", category |-> "irritability"],
       [slug |-> "daily_appetite", category |-> "appetite"],
       [slug |-> "daily_motivation", category |-> "motivation"],
       [slug |-> "daily_support", category |-> "support"],
       [slug |-> "daily_activity", category |-> "activity"],
       [slug |-> "daily_overwhelm", category |-> "overwhelm"],
       [slug |-> "daily_confidence", category |-> "confidence"],
       [slug |-> "daily_gratitude", category |-> "gratitude"] >>

DAILY_QUESTIONS == DAILY_CORE \o DAILY_ROTATING_POOL

\* Table questions after seed_questions
Question ==
    [id \in 1..(Len(ONBOARDING_QUESTIONS) + Len(DAILY_QUESTIONS)) |->
        IF id <= Len(ONBOARDING_QUESTIONS)
        THEN [id |-> id, kind |-> "onboarding", slug |-> ONBOARDING_QUESTIONS[id]]
        ELSE [id |-> id, kind |-> "daily",
              slug |-> DAILY_QUESTIONS[id - Len(ONBOARDING_QUESTIONS)].slug]]

\* question id -> category, for the daily questions
build_daily_category_map ==
    [id \in {i \in DOMAIN Question : Question[i].kind = "daily"} |->
        DAILY_QUESTIONS[id - Len(ONBOARDING_QUESTIONS)].category]

SCALE_OPTIONS == <<"1", "2", "3", "4", "5">>

MICRO_POOL ==
    << [question_type |-> "scale", options |-> SCALE_OPTIONS, category |-> "mood"],
       [question_type |-> "scale", options |-> SCALE_OPTIONS, category |-> "anxiety"],
       [question_type |-> "scale", options |-> SCALE_OPTIONS, category |-> "stress"],
       [question_type |-> "scale", options |-> SCALE_OPTIONS, category |-> "energy"],
       [question_type |-> "choice", options |-> <<"Connected", "Neutral", "Isolated">>,
        category |-> "connection"],
       [question_type |-> "scale", options |-> SCALE_OPTIONS, category |-> "hopelessness"],
       [question_type |-> "scale", options |-> SCALE_OPTIONS, category |-> "irritability"],
       [question_type |-> "scale", options |-> SCALE_OPTIONS, category |-> "focus"],
       [question_type |-> "scale", options |-> SCALE_OPTIONS, category |-> "appetite"],
       [question_type |-> "choice", options |-> <<"Yes", "No">>, category |-> "recovery"] >>

\* Table micro_questions after seed_micro_questions (every question is active)
MicroQuestion == [id \in 1..Len(MICRO_POOL) |-> MICRO_POOL[id]]

(***************************************************************************)
(* Time.  The clock counts seconds; a date is a day number.  The server    *)
(* runs in UTC, so datetime.now() and datetime.utcnow() agree.             *)
(***************************************************************************)
DAY == 86400
TEN_MINUTES == 600

DateOf(instant) == instant \div DAY

\* datetime.now().date(), also date.today()
local_today == DateOf(clock)

(***************************************************************************)
(* Queries over the answer tables (baseline_engine.py, main.py)            *)
(*                                                                         *)
(* A query without ORDER BY returns the rows in id order (a table scan).   *)
(***************************************************************************)
\* The rows of a table that satisfy Test, in id order
Select(table, Test(_)) == SelectSeq(table, Test)

QualityFilterMutant(row, include_low_quality) == TRUE

\* if not include_low_quality: query.filter(is_low_quality.is_(False))
QualityFilter(row, include_low_quality) == include_low_quality \/ ~row.is_low_quality

\* signals_by_date.setdefault(entry_date, {})[signal_key] = value
SetSignal(signals_by_date, entry_date, signal_key, value) ==
    LET old == IF entry_date \in DOMAIN signals_by_date THEN signals_by_date[entry_date] ELSE << >>
        new == [k \in DOMAIN old \cup {signal_key} |-> IF k = signal_key THEN value ELSE old[k]]
    IN [d \in DOMAIN signals_by_date \cup {entry_date} |->
           IF d = entry_date THEN new ELSE signals_by_date[d]]

\* The signal a daily answer row gives, or None
DailySignalOf(answer) ==
    LET category ==
            IF answer.category # None /\ answer.category[1] # "" THEN answer.category[1]
            ELSE DictGet(build_daily_category_map, answer.question_id, "")
    IN normalize_daily_answer(category, answer.answer_text)

\* The signal a micro answer row gives, or None
MicroSignalOf(answer) ==
    LET category ==
            IF answer.category # None /\ answer.category[1] # "" THEN answer.category[1]
            ELSE MicroQuestion[answer.question_id].category
    IN normalize_micro_answer(category, answer.value_json.value)

\* The loop over the rows of one query: every row that gives a signal sets it.
\* results[i] is the signal of rows[i], or None.
RECURSIVE CollectRows(_, _, _, _)
CollectRows(signals_by_date, rows, results, n) ==
    IF n = 0 THEN signals_by_date
    ELSE LET before == CollectRows(signals_by_date, rows, results, n - 1)
             result == results[n]
         IN IF result = None THEN before
            ELSE SetSignal(before, rows[n].entry_date, result[1].key, result[1].value)

collect_signals_for_window(user_id, start_date, end_date, include_low_quality, answer_table, micro_table) ==
    LET DailyTest(row) ==
            /\ row.user_id = user_id
            /\ row.entry_date >= start_date /\ row.entry_date <= end_date
            /\ row.kind = Some("daily")
            /\ QualityFilter(row, include_low_quality)
        MicroTest(row) ==
            /\ row.user_id = user_id
            /\ row.entry_date >= start_date /\ row.entry_date <= end_date
            /\ QualityFilter(row, include_low_quality)
        \* the daily rows first, then the micro rows: a later row overwrites the signal
        \* an earlier row set for the same date and key
        Collect(daily_rows, micro_rows) ==
            CollectRows(CollectRows(<< >>, daily_rows,
                                    [i \in 1..Len(daily_rows) |-> DailySignalOf(daily_rows[i])],
                                    Len(daily_rows)),
                        micro_rows,
                        [i \in 1..Len(micro_rows) |-> MicroSignalOf(micro_rows[i])],
                        Len(micro_rows))
    IN Collect(Select(answer_table, DailyTest), Select(micro_table, MicroTest))

\* The elements of a set of integers, ascending
RECURSIVE SortedSeqOf(_)
SortedSeqOf(set) ==
    IF set = {} THEN << >>
    ELSE LET least == CHOOSE x \in set : \A y \in set : x <= y
         IN <<least>> \o SortedSeqOf(set \ {least})

compute_baseline_snapshot(user_id, window_days, include_low_quality, end_date, answer_table, micro_table) ==
    LET start_date == end_date - (window_days - 1)
        \* the values of a key over the days that have it (the statistics do not
        \* depend on the order of the days)
        ValuesOn(signals_by_date, with_key, key) ==
            [i \in 1..Len(with_key) |-> signals_by_date[with_key[i]][key]]
        signal_values(signals_by_date, key) ==
            ValuesOn(signals_by_date,
                     SortedSeqOf({d \in DOMAIN signals_by_date : key \in DOMAIN signals_by_date[d]}),
                     key)
        Snapshot(signals_by_date) ==
            [window_days |-> window_days,
             start_date |-> start_date,
             end_date |-> end_date,
             signals |-> [key \in SeqToSet(SIGNAL_KEYS) |->
                             compute_signal_stats(signal_values(signals_by_date, key),
                                                  window_days)],
             total_days |-> window_days]
    IN Snapshot(collect_signals_for_window(user_id, start_date, end_date, include_low_quality,
                                           answer_table, micro_table))

\* sorted({row[0] for row in rows if row[0]})
fetch_micro_dates(user_id, micro_table, include_low_quality) ==
    SortedSeqOf({micro_table[i].entry_date :
                    i \in {j \in 1..Len(micro_table) :
                              /\ micro_table[j].user_id = user_id
                              /\ QualityFilter(micro_table[j], include_low_quality)}})

RECURSIVE StreakFrom(_, _)
StreakFrom(date_set, day) ==
    IF day \in date_set THEN 1 + StreakFrom(date_set, day - 1) ELSE 0

compute_current_streak(dates, today) ==
    IF dates = << >> THEN 0 ELSE StreakFrom(SeqToSet(dates), today)

compute_streak_from_latest(dates) ==
    IF dates = << >> THEN 0 ELSE StreakFrom(SeqToSet(dates), dates[Len(dates)])

\* confidence_bonus in thousandths
build_micro_signal(user_id, micro_table, today, include_low_quality) ==
    LET start_date == today - 6
        count_last_7 ==
            Cardinality({i \in 1..Len(micro_table) :
                            /\ micro_table[i].user_id = user_id
                            /\ micro_table[i].entry_date >= start_date
                            /\ QualityFilter(micro_table[i], include_low_quality)})
        dates == fetch_micro_dates(user_id, micro_table, include_low_quality)
        streak_days == compute_current_streak(dates, today)
        confidence_bonus ==
            (IF count_last_7 >= 5 THEN 30 ELSE 0) + (IF streak_days >= 3 THEN 20 ELSE 0)
    IN [answered_last_7_days |-> count_last_7,
        streak_days |-> streak_days,
        confidence_bonus |-> MinOf(50, confidence_bonus)]

(***************************************************************************)
(* Score baseline of a user (main.py)                                      *)
(***************************************************************************)
indicates_hopeless(text) ==
    LET lowered == StrLower(text)
    IN \E phrase \in {"yes", "often", "always", "very", "high", "severe"} :
           StrContains(lowered, phrase)

indicates_isolation(text) ==
    LET lowered == StrLower(text)
    IN \E phrase \in {"yes", "often", "mostly", "all day", "alone"} :
           StrContains(lowered, phrase)

contains_risk_keywords(text) ==
    LET lowered == StrLower(text)
    IN \E phrase \in {"suicide", "kill myself", "end it", "end my life", "self-harm",
                      "self harm", "can't go on"} :
           StrContains(lowered, phrase)

\* The score and the reasons one answer adds in compute_risk_details
RiskOfAnswer(answer) ==
    LET Points(slug, value) ==
       (IF slug = "daily_hopeless" /\ indicates_hopeless(answer.answer_text)
        THEN <<[points |-> 2, reason |-> "Reported hopelessness"]>> ELSE << >>)
       \o (IF slug = "daily_isolation" /\ indicates_isolation(answer.answer_text)
           THEN <<[points |-> 1, reason |-> "Reported isolation"]>> ELSE << >>)
       \o (IF slug = "daily_mood" /\ value # None /\ value[1] <= 3
           THEN <<[points |-> 1, reason |-> "Low mood rating"]>> ELSE << >>)
       \o (IF slug = "daily_anxiety" /\ value # None /\ value[1] >= 8
           THEN <<[points |-> 1, reason |-> "High anxiety rating"]>> ELSE << >>)
    IN Points(Question[answer.question_id].slug, parse_numeric(answer.answer_text))

RECURSIVE RiskOfAnswers(_)
RiskOfAnswers(rows) ==
    IF rows = << >> THEN << >> ELSE RiskOfAnswer(rows[1]) \o RiskOfAnswers(Tail(rows))

\* last_journal: None, or Some of the content of the journal entry
compute_risk_details(rows, last_journal) ==
    LET Details(found, journal_flag, score) ==
            [risk_level |-> IF journal_flag \/ score >= 4 THEN "high"
                            ELSE IF score >= 2 THEN "medium" ELSE "low",
             score |-> score,
             reasons |-> DictFromKeys([i \in 1..Len(found) |-> found[i].reason])]
        Found(found, journal_flag) ==
            Details(found, journal_flag, SeqSum([i \in 1..Len(found) |-> found[i].points]))
        Journal(journal_flag) ==
            Found(RiskOfAnswers(rows)
                      \o (IF journal_flag
                          THEN <<[points |-> 3, reason |-> "Risk keywords in recent journal"]>>
                          ELSE << >>),
                  journal_flag)
    IN Journal(last_journal # None /\ contains_risk_keywords(last_journal[1]))

\* One more decimal digit of a square root: r is floor(sqrt(n) * 10^k) and
\* rem is n * 10^(2k) - r * r
RECURSIVE SqrtRefine(_, _, _)
SqrtRefine(r, rem, digits) ==
    IF digits = 0 THEN r
    ELSE LET x == CHOOSE c \in 0..9 :
                     /\ (20 * r + c) * c <= 100 * rem
                     /\ (c = 9 \/ (20 * r + c + 1) * (c + 1) > 100 * rem)
         IN SqrtRefine(10 * r + x, 100 * rem - (20 * r + x) * x, digits - 1)

\* floor(sqrt(n) * 10^4)
SqrtTenThousandths(n) == LET r == ISqrt(n) IN SqrtRefine(r, n - r * r, 4)

\* round(statistics.mean(samples), 4), in ten-thousandths
ScoreMean(samples) == RoundHalfEven(SeqSum(samples) * 10000, Len(samples))

\* round(statistics.pstdev(samples), 4), in ten-thousandths: the integer nearest to
\* 10^4 * sqrt(n * sum(x^2) - sum(x)^2) / n
ScorePstdev(samples) ==
    LET n == Len(samples)
        sq == [i \in 1..n |-> samples[i] * samples[i]]
        d == n * SeqSum(sq) - SeqSum(samples) * SeqSum(samples)
    IN (SqrtTenThousandths(4 * d) + n) \div (2 * n)

LOOKBACK_DAYS == 30

\* The integer nearest to 10^digits * statistics.pstdev(samples), that is to
\* 10^digits * sqrt(n * sum(x^2) - sum(x)^2) / n, the deviations x taken from the floor
\* of the mean
RoundedPstdev(samples, digits) ==
    LET n == Len(samples)
        Rooted(d, r) == (SqrtRefine(r, d - r * r, digits) + n) \div (2 * n)
        Spread(d) == Rooted(d, ISqrt(d))
        Deviations(dev) ==
            Spread(4 * (n * SeqSum([i \in 1..n |-> dev[i] * dev[i]]) - SeqSum(dev) * SeqSum(dev)))
        Origin(origin) == Deviations([i \in 1..n |-> samples[i] - origin])
    IN Origin(SeqSum(samples) \div n)

\* rapid_valid of update_user_baseline (the same filter gives rapid_scores): the
\* evaluations of the window that were submitted, are valid and not of low quality
RapidValid(user_id, rapid_table, start_date) ==
    LET Test(item) ==
            /\ item.user_id = user_id
            /\ item.entry_date >= start_date
            /\ item.submitted_at # None
            /\ item.is_valid
            /\ ~item.is_low_quality
    IN Select(rapid_table, Test)

\* The fields update_user_baseline computes from rapid_valid: the response times in
\* hundredths of a second, the confidences in ten-thousandths
RapidBaselineFields(rapid_valid) ==
    LET Of(field) ==
            LET having == SelectSeq(rapid_valid, LAMBDA item : item[field] # None)
            IN [i \in 1..Len(having) |-> having[i][field][1]]
        Fields(response_times, confidences) ==
            [baseline_response_time_mean |->
                 IF response_times # << >>
                 THEN Some(RoundHalfEven(SeqSum(response_times) * 100, Len(response_times)))
                 ELSE None,
             baseline_response_time_std |->
                 IF response_times # << >>
                 THEN Some(IF Len(response_times) >= 2 THEN RoundedPstdev(response_times, 2)
                           ELSE 0)
                 ELSE None,
             baseline_confidence_mean |->
                 IF confidences # << >>
                 THEN Some(RoundHalfEven(SeqSum(confidences) * 10, Len(confidences)))
                 ELSE None,
             baseline_confidence_std |->
                 IF confidences # << >>
                 THEN Some(IF Len(confidences) >= 2 THEN RoundedPstdev(confidences, 1) ELSE 0)
                 ELSE None]
    IN Fields(Of("time_taken_seconds"), Of("confidence_score"))

\* journals_by_date of update_user_baseline: the content of the entry of the day that
\* was created last (among equal instants the first row scanned), or None
LastJournalOf(journal_rows, day) ==
    LET of_day == {i \in 1..Len(journal_rows) : journal_rows[i].entry_date = day}
    IN IF of_day = {} THEN None
       ELSE Some(journal_rows[CHOOSE i \in of_day :
                     \A j \in of_day :
                        \/ journal_rows[j].created_at < journal_rows[i].created_at
                        \/ journal_rows[j].created_at = journal_rows[i].created_at /\ i <= j].content)

\* The row update_user_baseline leaves for the user
update_user_baseline(user_id, answer_table, journal_table, rapid_table, baseline_table, today, now) ==
    LET start_date == today - (LOOKBACK_DAYS - 1)
        Test(row) ==
            /\ row.user_id = user_id
            /\ Question[row.question_id].kind = "daily"
            /\ row.entry_date >= start_date
        Updated(baseline, score_samples, sample_count, rapid_fields) ==
            IF sample_count = 0
            THEN [baseline EXCEPT !.sample_count = 0, !.last_updated_at = now]
            ELSE [baseline EXCEPT
                     !.baseline_score_mean = Some(ScoreMean(score_samples)),
                     !.baseline_score_std =
                         Some(IF sample_count >= 2 THEN ScorePstdev(score_samples) ELSE 0),
                     !.sample_count = sample_count,
                     !.baseline_response_time_mean = rapid_fields.baseline_response_time_mean,
                     !.baseline_response_time_std = rapid_fields.baseline_response_time_std,
                     !.baseline_confidence_mean = rapid_fields.baseline_confidence_mean,
                     !.baseline_confidence_std = rapid_fields.baseline_confidence_std,
                     !.last_updated_at = now]
        Samples(score_samples, rapid_valid) ==
            Updated(IF user_id \in DOMAIN baseline_table THEN baseline_table[user_id]
                    ELSE [user_id |-> user_id, sample_count |-> 0,
                          baseline_score_mean |-> None, baseline_score_std |-> None,
                          baseline_response_time_mean |-> None,
                          baseline_response_time_std |-> None,
                          baseline_confidence_mean |-> None, baseline_confidence_std |-> None,
                          last_updated_at |-> now],
                    score_samples, Len(score_samples), RapidBaselineFields(rapid_valid))
        JournalTest(entry) == entry.user_id = user_id /\ entry.entry_date >= start_date
        \* one score per day that has daily answers or a journal entry, in date order
        DailyScores(rows, journals, days) ==
            [i \in 1..Len(days) |->
                compute_risk_details(SelectSeq(rows, LAMBDA row : row.entry_date = days[i]),
                                     LastJournalOf(journals, days[i])).score]
        Rows(rows, journals, rapid_valid) ==
            Samples(DailyScores(rows, journals,
                                SortedSeqOf({rows[i].entry_date : i \in 1..Len(rows)}
                                            \cup {journals[i].entry_date : i \in 1..Len(journals)}))
                        \o [i \in 1..Len(rapid_valid) |-> rapid_valid[i].score],
                    rapid_valid)
    IN Rows(Select(answer_table, Test), Select(journal_table, JournalTest),
            RapidValid(user_id, rapid_table, start_date))

\* The table user_baseline after update_user_baseline
UpsertBaseline(baseline_table, row) ==
    [u \in DOMAIN baseline_table \cup {row.user_id} |->
        IF u = row.user_id THEN row ELSE baseline_table[u]]

\* The row store_baseline_snapshot adds; end_date: None, or Some of a date
store_baseline_snapshot(user_id, window_days, include_low_quality, end_date, answer_table, micro_table, today, now) ==
    LET target_end == IF end_date # None THEN end_date[1] ELSE today - 1
        days == IF window_days < 1 THEN 1 ELSE window_days
    IN [user_id |-> user_id,
        computed_at |-> now,
        window_days |-> days,
        json_payload |-> compute_baseline_snapshot(user_id, days, include_low_quality,
                                                   target_end, answer_table, micro_table)]

\* The table crisis_events after record_crisis_event
record_crisis_event(events, user_id, entry_date, source, level, matched_terms, snippet, risk_score, now) ==
    LET same == {i \in 1..Len(events) :
                    /\ events[i].user_id = user_id
                    /\ events[i].entry_date = entry_date
                    /\ events[i].source = source
                    /\ events[i].level = level}
        \* order_by(created_at.desc()).first(); among equal instants the first row scanned
        existing ==
            IF same = {} THEN 0
            ELSE CHOOSE i \in same :
                     \A j \in same : \/ events[j].created_at < events[i].created_at
                                     \/ events[j].created_at = events[i].created_at /\ i <= j
    IN IF existing # 0 /\ snippet # "" /\ events[existing].snippet = snippet THEN events
       ELSE Append(events, [user_id |-> user_id, entry_date |-> entry_date, created_at |-> now,
                            source |-> source, level |-> level,
                            matched_terms_json |-> matched_terms, snippet |-> snippet,
                            risk_score_at_time |-> risk_score])

(***************************************************************************)
(* Rotation of the questions (main.py)                                     *)
(*                                                                         *)
(* A generator of the random module is a natural number, its state: a draw *)
(* below n returns state % n and leaves state \div n, so the draws of      *)
(* random.Random(seed) are the digits of the seed in the mixed radix the   *)
(* shuffles ask for, and every order a shuffle can give is given by some   *)
(* seed.  The SHA-256 of build_rotation_seed is a digest into SeedSpace.   *)
(* A process also holds the module's shared generator, seeded from the     *)
(* system's entropy when the module is imported; a function receives its   *)
(* state as shared_random.                                                 *)
(***************************************************************************)
ROTATION_SALT == "LOCAL_ROTATION_SALT_CHANGE_ME"

SeedSpace == 24

KindCode(kind) == IF kind = "micro" THEN 1 ELSE IF kind = "daily" THEN 2 ELSE 3

\* int(hashlib.sha256(material.encode("utf-8")).hexdigest()[:16], 16)
Digest(user_id, target_date, kind, salt) ==
    (7 * user_id + 5 * target_date + 11 * KindCode(kind) + Len(salt)) % SeedSpace

build_rotation_seed(user_id, target_date, kind) ==
    Digest(user_id, target_date, kind, ROTATION_SALT)

\* A generator that is the process's shared one (not the code's)
SharedGenerator(seed, shared_random) == shared_random

\* random.Random(seed): a new generator, whose state is the seed
Random(seed, shared_random) == seed

\* x[i], x[j] = x[j], x[i]
Swap(x, i, j) == [x EXCEPT ![i] = x[j], ![j] = x[i]]

\* rng.shuffle(x): for i in reversed(range(1, len(x))): j = randbelow(i + 1); swap.
\* Positions count from 1 here, so position i draws below i.
RECURSIVE Shuffle(_, _, _)
Shuffle(x, i, state) ==
    IF i <= 1 THEN [list |-> x, state |-> state]
    ELSE Shuffle(Swap(x, i, (state % i) + 1), i - 1, state \div i)

\* All the questions, whatever is excluded (not the code's)
CandidatesAll(questions, exclude_ids) == questions

\* [q for q in questions if q["id"] not in exclude_ids]
Candidates(questions, exclude_ids) ==
    SelectSeq(questions, LAMBDA q : q.id \notin exclude_ids)

\* fresh if len(fresh) >= count else fresh + [the recent candidates]
OrderedCandidates(candidates, recent_question_ids, count) ==
    LET Choose(fresh) ==
            IF Len(fresh) >= count THEN fresh
            ELSE fresh \o SelectSeq(candidates, LAMBDA q : q.id \in recent_question_ids)
    IN Choose(SelectSeq(candidates, LAMBDA q : q.id \notin recent_question_ids))

\* The questions outside the missing categories first (not the code's)
SelectedOthersFirst(missing, others, count) ==
    Take(others, count) \o Take(missing, count - MinOf(count, Len(others)))

\* selected = missing[:count]; if len(selected) < count: selected.extend(others[:count - len(selected)])
Selected(missing, others, count) ==
    Take(missing, count) \o Take(others, count - MinOf(count, Len(missing)))

\* The list returned, and the arguments and the shared generator as the call leaves them
select_questions_with_seed(questions, missing_categories, recent_question_ids, exclude_ids, count, seed, shared_random) ==
    LET Returned(selected) ==
            [selected |-> selected,
             questions |-> questions,
             missing_categories |-> missing_categories,
             recent_question_ids |-> recent_question_ids,
             exclude_ids |-> exclude_ids,
             shared_random |-> shared_random]
        Others(first, others) ==
            Returned(Selected(first.list, Shuffle(others, Len(others), first.state).list, count))
        Missing(missing, others, rng) == Others(Shuffle(missing, Len(missing), rng), others)
        Ordered(ordered_candidates) ==
            Missing(SelectSeq(ordered_candidates, LAMBDA q : q.category \in missing_categories),
                    SelectSeq(ordered_candidates, LAMBDA q : q.category \notin missing_categories),
                    Random(seed, shared_random))
        Filtered(candidates) ==
            IF candidates = << >> THEN Returned(<< >>)
            ELSE Ordered(OrderedCandidates(candidates, recent_question_ids, count))
    IN IF count <= 0 THEN Returned(<< >>)
       ELSE Filtered(Candidates(questions, exclude_ids))

\* One list of build_daily_question_sets: the seeded row of each slug, in list order
DailyQuestionSet(items) ==
    [i \in 1..Len(items) |->
        [id |-> CHOOSE id \in DOMAIN Question : Question[id].slug = items[i].slug,
         slug |-> items[i].slug,
         category |-> items[i].category,
         kind |-> "daily"]]

build_daily_question_sets ==
    [core |-> DailyQuestionSet(DAILY_CORE), rotating |-> DailyQuestionSet(DAILY_ROTATING_POOL)]

\* The active rows of micro_questions whose prompt is in MICRO_POOL: all of them
build_micro_question_set ==
    [id \in 1..Len(MicroQuestion) |->
        [id |-> id,
         category |-> MicroQuestion[id].category,
         kind |-> "micro",
         question_type |-> MicroQuestion[id].question_type,
         options |-> MicroQuestion[id].options]]

\* The rows both collectors read: the user's answers of the kind from start_date on
\* that are not of low quality
RecentRows(user_id, kind, start_date, answer_table, micro_table) ==
    IF kind = "micro"
    THEN SelectSeq(micro_table,
                   LAMBDA row : /\ row.user_id = user_id
                                /\ row.entry_date >= start_date
                                /\ ~row.is_low_quality)
    ELSE SelectSeq(answer_table,
                   LAMBDA row : /\ row.user_id = user_id
                                /\ row.entry_date >= start_date
                                /\ ~row.is_low_quality
                                /\ row.question_id \in DOMAIN Question
                                /\ Question[row.question_id].kind = "daily")

collect_recent_question_ids(user_id, kind, start_date, answer_table, micro_table) ==
    { row.question_id :
        row \in SeqToSet(RecentRows(user_id, kind, start_date, answer_table, micro_table)) }

\* category = answer.category or question_category_map.get(answer.question_id)
RowCategory(row, question_category_map) ==
    IF row.category # None /\ row.category[1] # "" THEN row.category[1]
    ELSE DictGet(question_category_map, row.question_id, "")

collect_recent_categories(user_id, kind, start_date, question_category_map, answer_table, micro_table) ==
    { RowCategory(row, question_category_map) :
        row \in SeqToSet(RecentRows(user_id, kind, start_date, answer_table, micro_table)) }
    \ {""}

\* The ids answered on the date with an answer of good quality only (not the code's)
AnsweredOnGoodQuality(user_id, kind, target_date, answer_table, micro_table) ==
    { row.question_id :
        row \in { r \in SeqToSet(RecentRows(user_id, kind, target_date, answer_table, micro_table)) :
                     r.entry_date = target_date } }

\* answered_today of select_next_questions
AnsweredOn(user_id, kind, target_date, answer_table, micro_table) ==
    IF kind = "micro"
    THEN { row.question_id :
             row \in { r \in SeqToSet(micro_table) :
                          r.user_id = user_id /\ r.entry_date = target_date } }
    ELSE { row.question_id :
             row \in { r \in SeqToSet(answer_table) :
                          /\ r.user_id = user_id /\ r.entry_date = target_date
                          /\ r.question_id \in DOMAIN Question
                          /\ Question[r.question_id].kind = "daily" } }

CategoryMap(questions) ==
    [id \in { questions[i].id : i \in 1..Len(questions) } |->
        (CHOOSE q \in SeqToSet(questions) : q.id = id).category]

CategoriesOf(questions) == { questions[i].category : i \in 1..Len(questions) }

select_next_questions(user_id, kind, target_date, answer_table, micro_table, shared_random) ==
    LET Micro(pool, answered_today) ==
            select_questions_with_seed(
                pool,
                CategoriesOf(pool)
                    \ collect_recent_categories(user_id, kind, target_date - 6,
                                                CategoryMap(pool), answer_table, micro_table),
                collect_recent_question_ids(user_id, kind, target_date - 6,
                                            answer_table, micro_table),
                answered_today, 2,
                build_rotation_seed(user_id, target_date, kind), shared_random).selected
        Daily(core, rotating, answered_today) ==
            SelectSeq(core, LAMBDA item : item.id \notin answered_today)
            \o select_questions_with_seed(
                rotating,
                CategoriesOf(rotating)
                    \ collect_recent_categories(user_id, kind, target_date - 6,
                                                CategoryMap(core \o rotating),
                                                answer_table, micro_table),
                collect_recent_question_ids(user_id, kind, target_date - 6,
                                            answer_table, micro_table),
                answered_today \cup { core[i].id : i \in 1..Len(core) }, 2,
                build_rotation_seed(user_id, target_date, kind), shared_random).selected
    IN IF kind = "micro"
       THEN Micro(build_micro_question_set,
                  AnsweredOn(user_id, kind, target_date, answer_table, micro_table))
       ELSE Daily(build_daily_question_sets.core, build_daily_question_sets.rotating,
                  AnsweredOn(user_id, kind, target_date, answer_table, micro_table))

(***************************************************************************)
(* Confidence of a rapid evaluation (main.py).  Confidence scores are      *)
(* integers in thousandths: 600 is 0.6.  Times are whole seconds.          *)
(***************************************************************************)
CONFIDENCE_FLOOR == 50
CONFIDENCE_CAP == 950

\* The confidence before max(0.05, min(0.95, confidence))
RawRapidConfidence(time_taken_seconds, quality_flags) ==
    600
    + (IF time_taken_seconds >= 60 THEN 150
       ELSE IF 35 <= time_taken_seconds /\ time_taken_seconds <= 59 THEN 100
       ELSE 0)
    - (IF "too_fast" \in SeqToSet(quality_flags) THEN 200 ELSE 0)
    - (IF "failed_attention_check" \in SeqToSet(quality_flags) THEN 250 ELSE 0)
    - (IF "duplicate_answers" \in SeqToSet(quality_flags) THEN 100 ELSE 0)
    - (IF "patterned_answers" \in SeqToSet(quality_flags) THEN 100 ELSE 0)
    - (IF "extreme_only_answers" \in SeqToSet(quality_flags) THEN 100 ELSE 0)

\* A score that is returned as computed (not the code's)
compute_rapid_confidence_score_Unclamped(time_taken_seconds, quality_flags) ==
    RawRapidConfidence(time_taken_seconds, quality_flags)

compute_rapid_confidence_score(time_taken_seconds, quality_flags) ==
    MaxOf(CONFIDENCE_FLOOR,
          MinOf(CONFIDENCE_CAP, RawRapidConfidence(time_taken_seconds, quality_flags)))

apply_micro_confidence_bonus(confidence_score, micro_signal) ==
    IF DictGet(micro_signal, "confidence_bonus", 0) <= 0 THEN confidence_score
    ELSE MinOf(CONFIDENCE_CAP, confidence_score + DictGet(micro_signal, "confidence_bonus", 0))

(***************************************************************************)
(* Handlers of the daily and micro check-ins (main.py)                     *)
(*                                                                         *)
(* A handler that completes writes its rows, and the clock then stands a   *)
(* minute later.  Successive calls of datetime.utcnow() inside a handler   *)
(* return increasing instants, here a second apart.  A handler that raises *)
(* HTTPException changes no table.                                         *)
(***************************************************************************)
\* The rows in the order of an ORDER BY; Before(a, b): the keys put a strictly before
\* b.  Rows with equal keys stay in id order.
SortRows(rows, Before(_, _)) ==
    LET n == Len(rows)
        rank(i) == Cardinality({j \in 1..n : Before(rows[j], rows[i])
                                             \/ (~Before(rows[i], rows[j]) /\ j < i)})
    IN [k \in 1..n |-> rows[CHOOSE i \in 1..n : rank(i) = k - 1]]

\* The index of the first row of a table that satisfies Test, or 0: query.first()
FirstIdx(table, Test(_)) ==
    LET found == {i \in 1..Len(table) : Test(table[i])}
    IN IF found = {} THEN 0 ELSE CHOOSE i \in found : \A j \in found : i <= j

Served(kind) == [handled EXCEPT ![kind] = @ + 1]

\* A handler that raises after update_user_baseline was committed
Reject_AfterBaseline(handler, user, request, status_code, detail) ==
    /\ exchange' = Some([handler |-> handler, user |-> user, request |-> request,
                         status_code |-> status_code, body |-> [detail |-> detail]])
    /\ user_baseline' = UpsertBaseline(user_baseline,
                            update_user_baseline(user, answers, journal_entries, rapid_evaluations,
                                                 user_baseline, local_today, clock))
    /\ UNCHANGED <<answers, micro_answers, baseline_snapshots, crisis_events, journal_entries>>
    /\ UNCHANGED <<clock, dev_mode, handled>>

\* raise HTTPException(status_code, detail)
Reject(handler, user, request, status_code, detail) ==
    /\ exchange' = Some([handler |-> handler, user |-> user, request |-> request,
                         status_code |-> status_code, body |-> [detail |-> detail]])
    /\ UNCHANGED <<tableVars, clock, dev_mode, handled>>

\* recent_texts of submit_answers: per entry date, most recent date first, the texts
\* of the user's daily answers joined in the order of the query
RecentDailyTexts(user, answer_table) ==
    LET Test(row) == row.user_id = user /\ Question[row.question_id].kind = "daily"
        Before(a, b) ==
            \/ a.entry_date > b.entry_date
            \/ a.entry_date = b.entry_date /\ a.created_at > b.created_at
        rows == Select(answer_table, Test)
        recent_answers == Take(SortRows(rows, Before), 30)
        ascending == SortedSeqOf({recent_answers[i].entry_date : i \in 1..Len(recent_answers)})
        descending == [i \in 1..Len(ascending) |-> ascending[Len(ascending) + 1 - i]]
        texts_of(day) ==
            LET of_day == SelectSeq(recent_answers, LAMBDA row : row.entry_date = day)
            IN StrJoin(" | ", [i \in 1..Len(of_day) |-> of_day[i].answer_text])
    IN Take([i \in 1..Len(descending) |-> texts_of(descending[i])], 10)

\* The structured flags submit_answers passes to detect_crisis
DailyStructured(answer_slug_map) ==
    LET mood_value == DictGet(answer_slug_map, "daily_mood", "")
        anxiety_value == DictGet(answer_slug_map, "daily_anxiety", "")
        hopeless_value == DictGet(answer_slug_map, "daily_hopeless", "")
        numeric(text) ==
            IF text # "" /\ parse_numeric(text) # None THEN PyInt(parse_numeric(text)[1]) ELSE PyNone
    IN [risk_score |-> PyNone,
        mood_score |-> numeric(mood_value),
        anxiety_score |-> numeric(anxiety_value),
        hopelessness_score |->
            IF hopeless_value # "" /\ indicates_hopeless(hopeless_value) THEN PyInt(10) ELSE PyNone]

\* The table answers after the loop over the items of a batch.  The lookup of an
\* existing row sees the rows stored before the request: the rows the loop creates
\* are added to the session after the loop.
\* has_quality: the batch was assessed; without it an existing row keeps its quality
\* fields.
RECURSIVE StoreItems(_, _, _, _)
StoreItems(stored, new_rows, n, has_quality) ==
    IF n = 0 THEN [table |-> stored, added |-> << >>]
    ELSE LET before == StoreItems(stored, new_rows, n - 1, has_quality)
             row == new_rows[n]
             Test(r) == /\ r.user_id = row.user_id
                        /\ r.question_id = row.question_id
                        /\ r.entry_date = row.entry_date
             existing == FirstIdx(stored, Test)
             old == before.table[existing]
             rewritten ==
                 IF has_quality THEN row
                 ELSE [row EXCEPT !.input_quality_score = old.input_quality_score,
                                  !.input_quality_flags_json = old.input_quality_flags_json,
                                  !.is_low_quality = old.is_low_quality]
         IN IF existing # 0
            THEN [table |-> [before.table EXCEPT ![existing] = rewritten], added |-> before.added]
            ELSE [table |-> before.table, added |-> Append(before.added, row)]

submit_answers(user, payload) ==
    LET request == payload
        items == payload.answers
        n == Len(items)
        question_ids == [i \in 1..n |-> items[i].question_id]
        missing == SelectSeq(question_ids, LAMBDA qid : qid \notin DOMAIN Question)
        is_daily == \E i \in 1..n : /\ question_ids[i] \in DOMAIN Question
                                    /\ Question[question_ids[i]].kind = "daily"
        override_dt == IF dev_mode THEN payload.override_datetime ELSE None
        today == IF override_dt # None THEN DateOf(override_dt[1]) ELSE local_today
        \* quality of the batch
        DailyOfUser(row) == row.user_id = user /\ Question[row.question_id].kind = "daily"
        short_window_count ==
            Cardinality({i \in 1..Len(answers) :
                            DailyOfUser(answers[i]) /\ answers[i].created_at >= clock - TEN_MINUTES})
        \* the loop over the items
        entry_date_of(i) ==
            IF ~dev_mode THEN today
            ELSE IF items[i].entry_date # None THEN items[i].entry_date[1] ELSE today
        created_at_of(i) == IF override_dt # None THEN override_dt[1] ELSE clock + (i - 1)
        category_of(qid) ==
            IF Question[qid].kind = "daily"
            THEN (IF qid \in DOMAIN build_daily_category_map
                  THEN Some(build_daily_category_map[qid]) ELSE None)
            ELSE Some(Question[qid].kind)
        new_rows(quality) ==
            [i \in 1..n |->
                [user_id |-> user,
                 question_id |-> items[i].question_id,
                 answer_text |-> StrStrip(items[i].answer_text),
                 entry_date |-> entry_date_of(i),
                 created_at |-> created_at_of(i),
                 kind |-> Some(Question[items[i].question_id].kind),
                 category |-> category_of(items[i].question_id),
                 input_quality_score |-> IF quality # None THEN Some(quality[1].quality_score) ELSE None,
                 input_quality_flags_json |-> IF quality # None THEN quality[1].flags ELSE << >>,
                 is_low_quality |-> IF quality # None THEN quality[1].is_low_quality ELSE FALSE]]
        done == clock + n
        \* crisis detection
        answer_texts == [i \in 1..n |-> items[i].answer_text]
        slugs == {Question[question_ids[i]].slug : i \in 1..n}
        last_of(slug) == CHOOSE i \in 1..n :
                             /\ Question[question_ids[i]].slug = slug
                             /\ \A j \in 1..n : Question[question_ids[j]].slug = slug => j <= i
        answer_slug_map == [slug \in slugs |-> StrStrip(items[last_of(slug)].answer_text)]
        snippet == Take(StrJoin(" | ", answer_texts), 200)
        quality_body(quality) ==
            IF quality # None
            THEN [input_quality_score |-> Some(quality[1].quality_score),
                  input_quality_flags |-> quality[1].flags,
                  is_low_quality |-> quality[1].is_low_quality,
                  reason_summary |-> quality[1].reason_summary]
            ELSE << >>
        \* db.commit() and what follows it
        Commit(quality, answers_after, crisis_payload, is_crisis) ==
            /\ answers' = answers_after
            /\ user_baseline' =
                   UpsertBaseline(user_baseline,
                                  update_user_baseline(user, answers_after, journal_entries, rapid_evaluations,
                                                       user_baseline,
                                                       local_today, done))
            /\ baseline_snapshots' =
                   IF is_daily /\ ~quality[1].is_low_quality
                   THEN Append(baseline_snapshots,
                               store_baseline_snapshot(user, 14, FALSE, None, answers_after,
                                                       micro_answers, local_today, done))
                   ELSE baseline_snapshots
            /\ crisis_events' =
                   IF is_crisis
                   THEN record_crisis_event(crisis_events, user, today, "daily",
                                            crisis_payload.level, crisis_payload.matched_terms,
                                            snippet, None, done)
                   ELSE crisis_events
            /\ exchange' =
                   Some([handler |-> "submit_answers", user |-> user, request |-> request,
                         status_code |-> 200,
                         body |-> [saved |-> n,
                                   micro_signal |-> build_micro_signal(user, micro_answers,
                                                                       local_today, FALSE),
                                   crisis |-> IF is_crisis THEN Some(crisis_payload) ELSE None,
                                   quality |-> quality_body(quality)]])
            /\ clock' = clock + 60
            /\ handled' = Served("submit")
            /\ UNCHANGED <<micro_answers, journal_entries, dev_mode>>
        Detected(quality, answers_after, crisis_payload) ==
            Commit(quality, answers_after, crisis_payload, is_daily /\ crisis_payload.is_crisis)
        Stored(quality, stored) ==
            Detected(quality, stored.table \o stored.added,
                     detect_crisis(answer_texts, DailyStructured(answer_slug_map)))
        Assessed(quality) ==
            Stored(quality, StoreItems(answers, new_rows(quality), n, quality # None))
    IN IF payload.override_datetime # None /\ ~dev_mode
       THEN Reject("submit_answers", user, request, 403, "Developer mode disabled")
       ELSE IF items = << >>
       THEN Reject("submit_answers", user, request, 400, "No answers provided")
       ELSE IF missing # << >>
       THEN Reject("submit_answers", user, request, 400, "Unknown question IDs")
       ELSE IF ~dev_mode /\ \E i \in 1..n : /\ items[i].entry_date # None
                                            /\ items[i].entry_date[1] # today
       THEN Reject("submit_answers", user, request, 400,
                   "entry_date must be today unless dev mode is enabled.")
       ELSE Assessed(IF is_daily
                     THEN Some(assess_structured_quality(
                                   [i \in 1..n |-> StrStrip(items[i].answer_text)],
                                   RecentDailyTexts(user, answers), short_window_count))
                     ELSE None)

micro_answer(user, payload) ==
    LET request == payload
        today == local_today
        entry_date ==
            IF payload.override_entry_date # None THEN payload.override_entry_date[1]
            ELSE IF ~dev_mode THEN today
            ELSE IF payload.entry_date # None THEN payload.entry_date[1]
            ELSE today
        known == payload.question_id \in DOMAIN MicroQuestion
        question == MicroQuestion[payload.question_id]
        Test(row) == /\ row.user_id = user
                     /\ row.entry_date = entry_date
                     /\ row.question_id = payload.question_id
        now == clock
        OfUser(row) == row.user_id = user
        Later(a, b) == a.answered_at > b.answered_at
        RecentValues(recent_rows) ==
            [i \in 1..Len(recent_rows) |-> recent_rows[i].value_json.value]
        short_window_count ==
            Cardinality({i \in 1..Len(micro_answers) :
                            /\ micro_answers[i].user_id = user
                            /\ micro_answers[i].answered_at >= now - TEN_MINUTES})
        \* db.commit() and what follows it
        Commit(existing, saved, quality) ==
            /\ micro_answers' =
                   IF existing # 0 THEN [micro_answers EXCEPT ![existing] = saved]
                   ELSE Append(micro_answers, saved)
            /\ user_baseline' =
                   UpsertBaseline(user_baseline,
                                  update_user_baseline(user, answers, journal_entries, rapid_evaluations, user_baseline,
                                                       local_today, now + 1))
            /\ exchange' =
                   Some([handler |-> "micro_answer", user |-> user, request |-> request,
                         status_code |-> 200,
                         body |-> [saved |-> TRUE,
                                   entry_date |-> saved.entry_date,
                                   created_at |-> saved.created_at,
                                   answered_at |-> saved.answered_at,
                                   question_id |-> saved.question_id,
                                   value_json |-> saved.value_json,
                                   input_quality_score |-> saved.input_quality_score,
                                   input_quality_flags |-> quality.flags,
                                   is_low_quality |-> saved.is_low_quality,
                                   reason_summary |-> quality.reason_summary]])
            /\ clock' = clock + 60
            /\ handled' = Served("micro")
            /\ UNCHANGED <<answers, baseline_snapshots, crisis_events, journal_entries, dev_mode>>
        Assessed(value, quality) ==
            Commit(FirstIdx(micro_answers, Test),
                   [user_id |-> user,
                    question_id |-> payload.question_id,
                    entry_date |-> entry_date,
                    kind |-> Some("micro"),
                    category |-> Some(question.category),
                    value_json |-> [value |-> value],
                    created_at |-> now,
                    answered_at |-> now,
                    input_quality_score |-> Some(quality.quality_score),
                    input_quality_flags_json |-> quality.flags,
                    is_low_quality |-> quality.is_low_quality],
                   quality)
        Validated(value) ==
            IF question.question_type = "scale" /\ value \notin SeqToSet(question.options)
            THEN Reject("micro_answer", user, request, 400, "Invalid scale value.")
            ELSE IF question.question_type = "choice" /\ value \notin SeqToSet(question.options)
            THEN Reject("micro_answer", user, request, 400, "Invalid choice value.")
            ELSE IF question.question_type \notin {"scale", "choice"}
            THEN Reject("micro_answer", user, request, 400, "Unknown micro question type.")
            ELSE Assessed(value,
                          assess_structured_quality(
                              <<value>>,
                              RecentValues(Take(SortRows(Select(micro_answers, OfUser), Later), 10)),
                              short_window_count))
    IN IF payload.override_entry_date # None /\ ~dev_mode
       THEN Reject("micro_answer", user, request, 403, "Developer mode disabled")
       ELSE IF ~dev_mode /\ payload.entry_date # None /\ payload.entry_date[1] # today
       THEN Reject("micro_answer", user, request, 400,
                   "entry_date must be today unless dev mode is enabled.")
       ELSE IF ~known
       THEN Reject("micro_answer", user, request, 400, "Unknown micro question.")
       ELSE Validated(StrStrip(payload.value))

\* GET /insights/drift
insights_drift(user, window_days, date_override, include_low_quality) ==
    LET request == [window_days |-> window_days, date |-> date_override,
                    include_low_quality |-> include_low_quality]
        \* if include_low_quality and not is_dev_mode(): include_low_quality = False
        effective == include_low_quality /\ dev_mode
        target_date == IF date_override # None THEN date_override[1] ELSE local_today
        baseline_end == target_date - 1
        Respond(snapshot, today_signals, result) ==
            /\ baseline_snapshots' = Append(baseline_snapshots, snapshot)
            /\ exchange' =
                   Some([handler |-> "insights_drift", user |-> user, request |-> request,
                         status_code |-> 200,
                         body |-> [date |-> target_date,
                                   baseline_window_days |-> window_days,
                                   signals_today |-> today_signals,
                                   baseline |-> snapshot.json_payload,
                                   drift |-> result.drift,
                                   top_changes |-> result.top_changes,
                                   confidence |-> result.confidence,
                                   recommendations |-> result.recommendations]])
            /\ clock' = clock + 60
            /\ handled' = Served("insights")
            /\ UNCHANGED <<answers, micro_answers, user_baseline, crisis_events, journal_entries,
                           dev_mode>>
        Drift(snapshot, today_signals) ==
            Respond(snapshot, today_signals,
                    compute_drift(today_signals, snapshot.json_payload.signals))
    IN IF date_override # None /\ ~dev_mode
       THEN Reject("insights_drift", user, request, 403, "Developer mode disabled")
       ELSE Drift(store_baseline_snapshot(user, window_days, effective, Some(baseline_end),
                                          answers, micro_answers, local_today, clock),
                  DictGet(collect_signals_for_window(user, target_date, target_date, effective,
                                                     answers, micro_answers),
                          target_date, << >>))

\* GET /micro/streak
micro_streak(user, include_low_quality) ==
    LET request == [include_low_quality |-> include_low_quality]
        effective == include_low_quality /\ dev_mode
        Respond(dates) ==
            exchange' =
                Some([handler |-> "micro_streak", user |-> user, request |-> request,
                      status_code |-> 200,
                      body |-> [streak_days |-> compute_streak_from_latest(dates),
                                last_entry_date |-> IF dates # << >> THEN Some(dates[Len(dates)])
                                                    ELSE None,
                                entry_dates_last_30 |->
                                    SubSeq(dates, MaxOf(1, Len(dates) - 29), Len(dates))]])
    IN /\ Respond(fetch_micro_dates(user, micro_answers, effective))
       /\ UNCHANGED <<tableVars, clock, dev_mode, handled>>

\* GET /questions/next
get_next_questions(user, kind, date_override, shared_random) ==
    LET request == [kind |-> kind, date |-> date_override]
        Respond(target_date) ==
            /\ exchange' =
                Some([handler |-> "get_next_questions", user |-> user, request |-> request,
                      status_code |-> 200,
                      body |-> [kind |-> kind,
                                date |-> target_date,
                                questions |-> select_next_questions(
                                    user, kind, target_date, answers, micro_answers,
                                    shared_random)]])
            /\ UNCHANGED <<tableVars, clock, dev_mode, handled>>
    IN IF date_override # None /\ ~dev_mode
       THEN Reject("get_next_questions", user, request, 403, "Developer mode disabled")
       ELSE Respond(IF date_override # None THEN date_override[1] ELSE local_today)

(***************************************************************************)
(* Rapid evaluations: POST /rapid/start and POST /rapid/submit (main.py)   *)
(*                                                                         *)
(* A dict is the list of its keys in insertion order with the map from key *)
(* to value.  Instants and completion times are whole seconds; confidence  *)
(* is in thousandths.                                                      *)
(***************************************************************************)
\* RAPID_QUESTIONS: the slug of the question with id i
RAPID_QUESTIONS ==
    <<"rapid_mood", "rapid_anxiety", "rapid_hopeless", "rapid_isolation", "rapid_sleep",
      "rapid_appetite", "rapid_support", "rapid_self_harm_thoughts", "rapid_self_harm_plan",
      "rapid_substance", "rapid_attention_check">>

\* The slugs in the order of sorted()
SortedRapidSlugs ==
    <<"rapid_anxiety", "rapid_appetite", "rapid_attention_check", "rapid_hopeless",
      "rapid_isolation", "rapid_mood", "rapid_self_harm_plan", "rapid_self_harm_thoughts",
      "rapid_sleep", "rapid_substance", "rapid_support">>

\* The dict the loop over payload.answers builds: a key per slug answered, in the
\* order of the first answer to it, with the stripped text of the last
RapidAnswersBySlug(items) ==
    LET n == Len(items)
        slug_of(i) == RAPID_QUESTIONS[items[i].question_id]
        last_of(slug) == CHOOSE i \in 1..n :
                             /\ slug_of(i) = slug
                             /\ \A j \in 1..n : slug_of(j) = slug => j <= i
        Dict(keys) ==
            [keys |-> keys,
             map |-> [slug \in SeqToSet(keys) |-> StrStrip(items[last_of(slug)].answer_text)]]
    IN Dict(DictFromKeys([i \in 1..n |-> slug_of(i)]))

\* list(d.values())
DictValues(d) == [i \in 1..Len(d.keys) |-> d.map[d.keys[i]]]

\* The characters of a string as json.dumps writes them between the quotes
RECURSIVE JsonEscaped(_)
JsonEscaped(s) ==
    IF s = "" THEN ""
    ELSE IF Len(s) = 1 THEN
        (IF s = "\"" THEN "\\\""
         ELSE IF s = "\\" THEN "\\\\"
         ELSE IF s = "\n" THEN "\\n"
         ELSE s)
    ELSE JsonEscaped(SubSeq(s, 1, Len(s) \div 2))
             \o JsonEscaped(SubSeq(s, Len(s) \div 2 + 1, Len(s)))

\* json.dumps(d, sort_keys=True) of a dict from slug to text
JsonDumps(d) ==
    LET present == SelectSeq(SortedRapidSlugs, LAMBDA slug : slug \in DOMAIN d.map)
        Pair(slug) == "\"" \o slug \o "\": \"" \o JsonEscaped(d.map[slug]) \o "\""
    IN "{" \o StrJoin(", ", [i \in 1..Len(present) |-> Pair(present[i])]) \o "}"

\* The number of times the most frequent element occurs: max(counts.values())
MostCommon(vals) ==
    LET Count(v) == Cardinality({i \in 1..Len(vals) : vals[i] = v})
    IN IF vals = << >> THEN 0
       ELSE Count(CHOOSE v \in SeqToSet(vals) : \A w \in SeqToSet(vals) : Count(w) <= Count(v))

\* detect_patterned_answers without the minimum of five answers
detect_patterned_answers_NoMinimum(d) ==
    LET Answered(slug) == slug # "rapid_attention_check" /\ StrStrip(d.map[slug]) # ""
        Patterned(vals, most_common) ==
            IF vals = << >> THEN FALSE
            ELSE IF most_common = Len(vals) THEN TRUE
            ELSE 10 * most_common >= 8 * Len(vals)
        Counted(vals) == Patterned(vals, MostCommon(vals))
        Stripped(slugs) ==
            Counted([i \in 1..Len(slugs) |-> StrLower(StrStrip(d.map[slugs[i]]))])
    IN Stripped(SelectSeq(d.keys, Answered))

detect_patterned_answers(d) ==
    LET Answered(slug) == slug # "rapid_attention_check" /\ StrStrip(d.map[slug]) # ""
        Patterned(vals, most_common) ==
            IF Len(vals) < 5 THEN FALSE
            ELSE IF most_common = Len(vals) THEN TRUE
            ELSE 10 * most_common >= 8 * Len(vals)
        Counted(vals) == Patterned(vals, MostCommon(vals))
        Stripped(slugs) ==
            Counted([i \in 1..Len(slugs) |-> StrLower(StrStrip(d.map[slugs[i]]))])
    IN Stripped(SelectSeq(d.keys, Answered))

detect_extreme_only_answers(d) ==
    LET Numbers(slugs) == [i \in 1..Len(slugs) |-> parse_numeric(d.map[slugs[i]])[1]]
        Extreme(numeric_values) ==
            IF Len(numeric_values) < 2 THEN FALSE
            ELSE \A i \in 1..Len(numeric_values) :
                     numeric_values[i] <= 2 \/ numeric_values[i] >= 9
    IN Extreme(Numbers(SelectSeq(<<"rapid_mood", "rapid_anxiety">>,
                                 LAMBDA slug : parse_numeric(DictGet(d.map, slug, "")) # None)))

TOO_FAST_SECONDS == 25

\* invalid_flags of rapid_submit without the test of the completion time
RapidInvalidFlagsUntimed(time_taken_seconds, attention, is_duplicate) ==
    (IF StrLower(StrStrip(attention)) # "sometimes" THEN <<"failed_attention_check">> ELSE << >>)
    \o (IF is_duplicate THEN <<"duplicate_answers">> ELSE << >>)

\* invalid_flags of rapid_submit; started_at is never None when it is tested.
\* is_duplicate: the last valid evaluation holds the same answers_json
RapidInvalidFlags(time_taken_seconds, attention, is_duplicate) ==
    (IF time_taken_seconds < TOO_FAST_SECONDS THEN <<"too_fast">> ELSE << >>)
    \o (IF StrLower(StrStrip(attention)) # "sometimes" THEN <<"failed_attention_check">> ELSE << >>)
    \o (IF is_duplicate THEN <<"duplicate_answers">> ELSE << >>)

\* soft_flags of rapid_submit
RapidSoftFlags(d) ==
    (IF detect_patterned_answers(d) THEN <<"patterned_answers">> ELSE << >>)
    \o (IF detect_extreme_only_answers(d) THEN <<"extreme_only_answers">> ELSE << >>)

\* A submission that any flag invalidates
RapidIsValidNoFlag(invalid_flags, soft_flags) == Len(invalid_flags \o soft_flags) = 0

\* is_valid = len(invalid_flags) == 0
RapidIsValid(invalid_flags, soft_flags) == Len(invalid_flags) = 0

\* The flags, the validity and the confidence rapid_submit derives from the completion
\* time and the two lists of flags
RapidValidity(time_taken_seconds, invalid_flags, soft_flags, micro_signal) ==
    LET Scored(quality_flags) ==
            [time_taken_seconds |-> time_taken_seconds,
             quality_flags |-> quality_flags,
             is_valid |-> RapidIsValid(invalid_flags, soft_flags),
             micro_signal |-> micro_signal,
             confidence_score |->
                 apply_micro_confidence_bonus(
                     compute_rapid_confidence_score(time_taken_seconds, quality_flags),
                     micro_signal)]
    IN Scored(DictFromKeys(invalid_flags \o soft_flags))

\* structured of the call of detect_crisis in rapid_submit
RapidStructured(a, score) ==
    [risk_score |-> PyInt(score),
     self_harm_thoughts |-> PyBool(is_yes(DictGet(a, "rapid_self_harm_thoughts", "")) = Some(TRUE)),
     self_harm_plan |-> PyBool(is_yes(DictGet(a, "rapid_self_harm_plan", "")) = Some(TRUE)),
     hopelessness_score |->
         IF is_yes(DictGet(a, "rapid_hopeless", "")) = Some(TRUE) THEN PyInt(10) ELSE PyNone]

\* The evaluations of the user that were submitted, the latest first
SubmittedEvaluations(user, rapid_table) ==
    LET Test(item) == item.user_id = user /\ item.submitted_at # None
        Later(a, b) == a.submitted_at[1] > b.submitted_at[1]
    IN SortRows(Select(rapid_table, Test), Later)

\* raise HTTPException(status_code, detail) in a handler of the rapid evaluations
RejectRapid(handler, user, request, status_code, detail) ==
    /\ Reject(handler, user, request, status_code, detail)
    /\ UNCHANGED rapid_evaluations

\* POST /rapid/start; the response leaves two seconds after the request came
rapid_start(user, payload) ==
    LET request == payload
        today == local_today
        now == clock
        Started(entry_date) ==
            /\ rapid_evaluations' =
                   Append(rapid_evaluations,
                          [user_id |-> user, created_at |-> now + 1, entry_date |-> entry_date,
                           started_at |-> Some(now), submitted_at |-> None,
                           answers_json |-> "{}", score |-> 0, level |-> "PENDING",
                           signals_json |-> << >>, confidence_score |-> None,
                           explainability_json |-> << >>, time_taken_seconds |-> None,
                           is_valid |-> TRUE, quality_flags_json |-> << >>, is_demo |-> FALSE,
                           input_quality_score |-> None, input_quality_flags_json |-> << >>,
                           is_low_quality |-> FALSE])
            /\ exchange' =
                   Some([handler |-> "rapid_start", user |-> user, request |-> request,
                         status_code |-> 200,
                         body |-> [session_id |-> Len(rapid_evaluations) + 1,
                                   started_at |-> now, entry_date |-> entry_date]])
            /\ clock' = clock + 2
            /\ handled' = Served("start")
            /\ UNCHANGED <<tableVars, dev_mode>>
    IN IF ~dev_mode /\ payload.entry_date # None /\ payload.entry_date[1] # today
       THEN RejectRapid("rapid_start", user, request, 400,
                        "entry_date must be today unless dev mode is enabled.")
       ELSE Started(IF ~dev_mode \/ payload.entry_date = None THEN today
                    ELSE payload.entry_date[1])

\* The limits of dev mode, whatever the mode
rapid_limits_DevAlways(dev) == [cooldown_seconds |-> 5, daily_limit |-> 50]

\* cooldown_seconds and daily_limit of rapid_submit
rapid_limits(dev) ==
    IF dev THEN [cooldown_seconds |-> 5, daily_limit |-> 50]
    ELSE [cooldown_seconds |-> 5 * 60, daily_limit |-> 3]

\* A session lookup that does not ask whether the session was submitted
active_session_Resubmit(user, session_id, rapid_table) ==
    /\ session_id \in 1..Len(rapid_table)
    /\ rapid_table[session_id].user_id = user

\* active_session of rapid_submit: the user's row with this id that is not submitted
active_session(user, session_id, rapid_table) ==
    /\ session_id \in 1..Len(rapid_table)
    /\ rapid_table[session_id].user_id = user
    /\ rapid_table[session_id].submitted_at = None

\* POST /rapid/submit; the response leaves a minute after the request came
rapid_submit(user, payload) ==
    LET request == payload
        override_dt == IF dev_mode THEN payload.override_datetime ELSE None
        now == IF override_dt # None THEN override_dt[1] ELSE clock
        cooldown_seconds == rapid_limits(dev_mode).cooldown_seconds
        daily_limit == rapid_limits(dev_mode).daily_limit
        items == payload.answers
        today == local_today
        done == clock + 2
        session_id == IF payload.session_id = None THEN 0 ELSE payload.session_id[1]
        HasSession == active_session(user, session_id, rapid_evaluations)
        unknown == SelectSeq(items, LAMBDA item : item.question_id \notin 1..Len(RAPID_QUESTIONS))
        LastValid(submitted) == SelectSeq(submitted, LAMBDA item : item.is_valid)
        short_window_count(submitted) ==
            Len(SelectSeq(submitted, LAMBDA item : item.submitted_at[1] >= clock + 1 - TEN_MINUTES))
        Heavier(a, b) == a.weight > b.weight
        \* db.commit() and what follows it
        Commit(row, risk, top_explanations, crisis_payload, entry_date, validity, quality, evaluations_after, snippet) ==
            /\ rapid_evaluations' = evaluations_after
            /\ user_baseline' =
                   UpsertBaseline(user_baseline,
                                  update_user_baseline(user, answers, journal_entries, evaluations_after,
                                                       user_baseline, today, done))
            /\ baseline_snapshots' =
                   IF ~quality.is_low_quality
                   THEN Append(baseline_snapshots,
                               store_baseline_snapshot(user, 14, FALSE, None, answers,
                                                       micro_answers, today, done))
                   ELSE baseline_snapshots
            /\ crisis_events' =
                   IF crisis_payload.is_crisis
                   THEN record_crisis_event(crisis_events, user, entry_date, "rapid",
                                            crisis_payload.level, crisis_payload.matched_terms,
                                            snippet, Some(risk.score), done)
                   ELSE crisis_events
            /\ exchange' =
                   Some([handler |-> "rapid_submit", user |-> user, request |-> request,
                         status_code |-> 200,
                         body |-> [level |-> risk.level,
                                   score |-> risk.score,
                                   signals |-> row.signals_json,
                                   recommended_actions |-> risk.actions,
                                   crisis_guidance |-> risk.crisis_guidance,
                                   crisis |-> IF crisis_payload.is_crisis
                                              THEN Some(crisis_payload) ELSE None,
                                   confidence_score |-> validity.confidence_score,
                                   explanations |-> top_explanations,
                                   is_valid |-> validity.is_valid,
                                   quality_flags |-> validity.quality_flags,
                                   time_taken_seconds |-> validity.time_taken_seconds,
                                   micro_signal |-> validity.micro_signal,
                                   input_quality_score |-> quality.quality_score,
                                   input_quality_flags |-> quality.flags,
                                   is_low_quality |-> quality.is_low_quality,
                                   reason_summary |-> quality.reason_summary,
                                   entry_date |-> entry_date]])
            /\ clock' = clock + 60
            /\ handled' = Served("rapid")
            /\ UNCHANGED <<answers, micro_answers, journal_entries, dev_mode>>
        \* the session's row after the assignments, or the row that is added
        Written(row, risk, top_explanations, crisis_payload, entry_date, validity, quality, snippet) ==
            Commit(row, risk, top_explanations, crisis_payload, entry_date, validity, quality,
                   IF HasSession THEN [rapid_evaluations EXCEPT ![session_id] = row]
                   ELSE Append(rapid_evaluations, row),
                   snippet)
        Row(base, risk, top_explanations, crisis_payload, entry_date, started_at, validity, quality, answers_payload, snippet) ==
            Written([base EXCEPT
                        !.entry_date = entry_date,
                        !.started_at = Some(started_at),
                        !.submitted_at = Some(now),
                        !.answers_json = answers_payload,
                        !.score = risk.score,
                        !.level = risk.level,
                        !.signals_json = [i \in 1..Len(top_explanations) |->
                                              top_explanations[i].reason],
                        !.confidence_score = Some(validity.confidence_score),
                        !.input_quality_score = Some(quality.quality_score),
                        !.input_quality_flags_json = quality.flags,
                        !.is_low_quality = quality.is_low_quality,
                        !.explainability_json = top_explanations,
                        !.time_taken_seconds = Some(validity.time_taken_seconds),
                        !.is_valid = validity.is_valid,
                        !.quality_flags_json = validity.quality_flags],
                    risk, top_explanations, crisis_payload, entry_date, validity, quality,
                    snippet)
        Base ==
            IF HasSession
            THEN (IF override_dt # None
                  THEN [rapid_evaluations[session_id] EXCEPT !.created_at = override_dt[1]]
                  ELSE rapid_evaluations[session_id])
            ELSE [user_id |-> user, created_at |-> now, entry_date |-> today,
                  started_at |-> None, submitted_at |-> None, answers_json |-> "",
                  score |-> 0, level |-> "", signals_json |-> << >>,
                  confidence_score |-> None, explainability_json |-> << >>,
                  time_taken_seconds |-> None, is_valid |-> TRUE,
                  quality_flags_json |-> << >>, is_demo |-> FALSE,
                  input_quality_score |-> None, input_quality_flags_json |-> << >>,
                  is_low_quality |-> FALSE]
        Gate(d, risk, crisis_payload, entry_date, started_at, submitted, answers_payload) ==
            Row(Base, risk,
                Take(SortRows(risk.explanations, Heavier), 3),
                crisis_payload, entry_date, started_at,
                RapidValidity(now - started_at,
                              RapidInvalidFlags(
                                  now - started_at,
                                  DictGet(d.map, "rapid_attention_check", ""),
                                  /\ LastValid(submitted) # << >>
                                  /\ LastValid(submitted)[1].answers_json = answers_payload),
                              RapidSoftFlags(d),
                              build_micro_signal(user, micro_answers, today, FALSE)),
                assess_input_quality(StrJoin(" ", DictValues(d)),
                                     [i \in 1..MinOf(3, Len(submitted)) |->
                                         submitted[i].answers_json],
                                     short_window_count(submitted)),
                answers_payload,
                Take(StrJoin(" | ", DictValues(d)), 200))
        Dated(d, risk, crisis_payload, submitted) ==
            IF ~dev_mode /\ payload.entry_date # None /\ payload.entry_date[1] # today
            THEN RejectRapid("rapid_submit", user, request, 400,
                             "entry_date must be today unless dev mode is enabled.")
            ELSE Gate(d, risk, crisis_payload,
                      IF override_dt # None THEN DateOf(override_dt[1])
                      ELSE IF ~dev_mode THEN today
                      ELSE IF payload.entry_date # None THEN payload.entry_date[1]
                      ELSE IF HasSession THEN rapid_evaluations[session_id].entry_date
                      ELSE today,
                      IF HasSession THEN rapid_evaluations[session_id].started_at[1]
                      ELSE IF payload.started_at # None THEN payload.started_at[1]
                      ELSE now,
                      submitted, JsonDumps(d))
        Scored(d, risk, submitted) ==
            Dated(d, risk,
                  detect_crisis(DictValues(d), RapidStructured(d.map, risk.score)),
                  submitted)
        Answered(d, submitted) == Scored(d, compute_rapid_risk(d.map), submitted)
        Limited(submitted) ==
            IF /\ submitted # << >>
               /\ now - submitted[1].submitted_at[1] < cooldown_seconds
            THEN RejectRapid("rapid_submit", user, request, 429,
                             "Please wait before starting another rapid evaluation.")
            ELSE IF Len(SelectSeq(submitted, LAMBDA item : item.submitted_at[1] >= now - DAY))
                        >= daily_limit
            THEN RejectRapid("rapid_submit", user, request, 429, "Daily limit reached")
            ELSE IF items = << >>
            THEN RejectRapid("rapid_submit", user, request, 400, "No answers provided")
            ELSE IF payload.session_id # None /\ ~HasSession
            THEN RejectRapid("rapid_submit", user, request, 400,
                             "Invalid or expired rapid session.")
            ELSE IF unknown # << >>
            THEN RejectRapid("rapid_submit", user, request, 400, "Unknown question ID")
            ELSE Answered(RapidAnswersBySlug(items), submitted)
    IN IF payload.override_datetime # None /\ ~dev_mode
       THEN RejectRapid("rapid_submit", user, request, 403, "Developer mode disabled")
       ELSE Limited(SubmittedEvaluations(user, rapid_evaluations))

(***************************************************************************)
(* Idle values of the variables a specification does not use               *)
(***************************************************************************)
RapidIdle == answers_by_slug = << >> /\ rapid_result = None
CrisisIdle == texts = << >> /\ structured = << >> /\ crisis_result = None
StatsIdle == values = << >> /\ total_days = 0 /\ stats_result = None
DriftIdle == signals_today = << >> /\ baseline_signals = << >> /\ drift_result = None
DbIdle ==
    /\ answers = << >> /\ micro_answers = << >> /\ user_baseline = << >>
    /\ baseline_snapshots = << >> /\ crisis_events = << >>
    /\ journal_entries = << >>
    /\ clock = 0 /\ dev_mode = FALSE /\ handled = << >> /\ exchange = None
    /\ rapid_evaluations = << >>
CallIdle == call = None /\ returned = None

(***************************************************************************)
(* SpecRapid: compute_rapid_risk applied to a drawn set of rapid answers   *)
(***************************************************************************)
Absent == "<absent>"

\* The answers a client may send for each rapid question (Absent: not answered).
RapidAnswerChoices ==
    [rapid_mood : {Absent, "3", "4"},
     rapid_anxiety : {"7", "8"},
     rapid_hopeless : {"Yes", "no"},
     rapid_isolation : {Absent, "yes"},
     rapid_sleep : {"Good", "Poor"},
     rapid_appetite : {"Okay", "poor"},
     rapid_support : {Absent, "Yes", "No"},
     rapid_substance : {"yes", "no"},
     rapid_self_harm_thoughts : {Absent, "Yes", "No"},
     rapid_self_harm_plan : {Absent, "Yes", " y ", "No", "maybe"}]

DropAbsent(r) == [k \in {x \in DOMAIN r : r[x] # Absent} |-> r[k]]

InitRapid ==
    /\ \E r \in RapidAnswerChoices : answers_by_slug = DropAbsent(r)
    /\ rapid_result = None
    /\ CrisisIdle /\ StatsIdle /\ DriftIdle /\ DbIdle /\ CallIdle

RapidCompute ==
    /\ rapid_result = None
    /\ rapid_result' = Some(compute_rapid_risk(answers_by_slug))
    /\ UNCHANGED <<answers_by_slug, crisisVars, statsVars, driftVars, dbVars, callVars>>

NextRapid == RapidCompute

SpecRapid == InitRapid /\ [][NextRapid]_vars

PlanAnswered == is_yes(DictGet(answers_by_slug, "rapid_self_harm_plan", "")) = Some(TRUE)

\* C1: whenever the self-harm plan answer is yes, the result has level RED and a
\* score of at least 18, whatever the other answers are.
C1_PlanForcesRed ==
    (rapid_result # None /\ PlanAnswered)
        => (rapid_result[1].level = "RED" /\ rapid_result[1].score >= 18)

\* C1 witness: plan answered yes while no additive rule is triggered (total 0);
\* the result is RED with score exactly 18.
C1_Witness ==
    /\ rapid_result # None
    /\ PlanAnswered
    /\ \A i \in 1..9 : ~RapidRules(answers_by_slug)[i][1]
    /\ rapid_result[1].level = "RED"
    /\ rapid_result[1].score = 18

Bit(b) == IF b THEN 1 ELSE 0

\* The additive total as the claim words it: the weights of the triggered rules.
C4_WeightedSum ==
    LET a == answers_by_slug
        mood == parse_numeric(DictGet(a, "rapid_mood", ""))
        anxiety == parse_numeric(DictGet(a, "rapid_anxiety", ""))
    IN   3 * Bit(mood # None /\ mood[1] <= 3)
       + 3 * Bit(anxiety # None /\ anxiety[1] >= 8)
       + 4 * Bit(is_yes(DictGet(a, "rapid_hopeless", "")) = Some(TRUE))
       + 2 * Bit(is_yes(DictGet(a, "rapid_isolation", "")) = Some(TRUE))
       + 1 * Bit(is_choice(DictGet(a, "rapid_sleep", ""), "Poor"))
       + 1 * Bit(is_choice(DictGet(a, "rapid_appetite", ""), "Poor"))
       + 1 * Bit(is_yes(DictGet(a, "rapid_support", "")) = Some(FALSE))
       + 1 * Bit(is_yes(DictGet(a, "rapid_substance", "")) = Some(TRUE))
       + 6 * Bit(is_yes(DictGet(a, "rapid_self_harm_thoughts", "")) = Some(TRUE))

\* C4: without the plan flag the score is the sum of the weights of the triggered
\* rules and alone decides the level: RED iff score >= 12, YELLOW iff
\* 6 <= score < 12, GREEN iff score < 6.
C4_LevelFromScore ==
    (rapid_result # None /\ ~PlanAnswered)
        => LET res == rapid_result[1]
           IN /\ res.score = C4_WeightedSum
              /\ (res.level = "RED") <=> (res.score >= 12)
              /\ (res.level = "YELLOW") <=> (res.score >= 6 /\ res.score < 12)
              /\ (res.level = "GREEN") <=> (res.score < 6)

\* C4 witness: no plan flag and a score of exactly 12, which is RED.
C4_Witness ==
    /\ rapid_result # None
    /\ ~PlanAnswered
    /\ rapid_result[1].score = 12
    /\ rapid_result[1].level = "RED"

\* C5: a RED result carries non-empty crisis guidance, however RED was reached;
\* a YELLOW or GREEN result carries none.
C5_RedHasGuidance ==
    rapid_result # None
        => LET res == rapid_result[1]
           IN IF res.level = "RED"
              THEN res.crisis_guidance # None /\ Len(res.crisis_guidance[1]) > 0
              ELSE res.crisis_guidance = None

\* C5 witness: RED reached through the score alone (no plan flag), with guidance.
C5_Witness ==
    /\ rapid_result # None
    /\ ~PlanAnswered
    /\ rapid_result[1].level = "RED"
    /\ rapid_result[1].crisis_guidance # None
    /\ Len(rapid_result[1].crisis_guidance[1]) > 0

(***************************************************************************)
(* SpecCrisis: detect_crisis applied to drawn texts and structured flags   *)
(***************************************************************************)
MaxTexts == 2

TextPool ==
    {"I want to kill myself tonight.",
     "Today was okay. I went for a walk.",
     "I feel hopeless and I hurt myself before.",
     "There is No Way Out",
     "Suicides are in the news",
     "I plan to end it"}

PyAbsent == [t |-> "absent"]

StructuredChoices ==
    [self_harm_plan : {PyAbsent, PyBool(TRUE), PyBool(FALSE)},
     self_harm_intent : {PyAbsent, PyBool(TRUE)},
     hopelessness_score : {PyAbsent, PyInt(7), PyInt(8), PyStr("9")},
     risk_score : {PyNone, PyInt(17), PyInt(18)},
     self_harm_thoughts : {PyAbsent, PyBool(TRUE), PyInt(1)}]

DropPyAbsent(r) == [k \in {x \in DOMAIN r : r[x].t # "absent"} |-> r[k]]

InitCrisis ==
    /\ \E n \in 0..MaxTexts : \E t \in [1..n -> TextPool] : texts = t
    /\ \E r \in StructuredChoices : structured = DropPyAbsent(r)
    /\ crisis_result = None
    /\ RapidIdle /\ StatsIdle /\ DriftIdle /\ DbIdle /\ CallIdle

CrisisDetect ==
    /\ crisis_result = None
    /\ crisis_result' = Some(detect_crisis(texts, structured))
    /\ UNCHANGED <<texts, structured, rapidVars, statsVars, driftVars, dbVars, callVars>>

NextCrisis == CrisisDetect

SpecCrisis == InitCrisis /\ [][NextCrisis]_vars

\* The HIGH tier fires: a HIGH pattern matches the combined text, or one of the
\* structured flags self_harm_plan / self_harm_intent is true.
HighTierFires ==
    LET combined == CrisisCombined(texts)
    IN \/ \E i \in 1..Len(HIGH_PATTERNS) : PatternSearch(combined, HIGH_PATTERNS[i])
       \/ Truthy(DictGet(structured, "self_harm_plan", PyNone))
       \/ Truthy(DictGet(structured, "self_harm_intent", PyNone))

HopelessAtLeast8 ==
    LET v == DictGet(structured, "hopelessness_score", PyNone)
    IN v.t = "int" /\ v.n >= 8

RiskAtLeast18 ==
    LET v == DictGet(structured, "risk_score", PyNone)
    IN v.t = "int" /\ v.n >= 18

SelfHarmTermInText ==
    LET combined == CrisisCombined(texts)
    IN \E term \in SELF_HARM_HINT_TERMS : StrContains(combined, term)

AlarmingPhraseInText ==
    LET combined == CrisisCombined(texts)
    IN \E term \in ALARMING_TERMS : StrContains(combined, term)

ElevatedTermInText ==
    LET combined == CrisisCombined(texts)
    IN \E i \in 1..Len(ELEVATED_TERMS) : StrContains(combined, ELEVATED_TERMS[i])

\* C2: whenever the HIGH tier fires the result is is_crisis = true with level high,
\* whatever hopelessness_score, risk_score, self_harm_thoughts and elevated terms are.
C2_HighShortCircuits ==
    (crisis_result # None /\ HighTierFires)
        => (crisis_result[1].is_crisis /\ crisis_result[1].level = "high")

\* C2 witness: a HIGH pattern matches while the elevated condition holds as well
\* (hopelessness_score >= 8 with a self-harm term in the text); the result is high.
C2_Witness ==
    /\ crisis_result # None
    /\ LET combined == CrisisCombined(texts)
       IN \E i \in 1..Len(HIGH_PATTERNS) : PatternSearch(combined, HIGH_PATTERNS[i])
    /\ HopelessAtLeast8 /\ SelfHarmTermInText
    /\ crisis_result[1].level = "high"

\* C3: when the HIGH tier does not fire, the result is elevated (is_crisis true)
\* exactly when (hopelessness_score >= 8 and (self_harm_thoughts is true or a
\* self-harm term is in the text)) or (risk_score >= 18 and an alarming phrase is in
\* the text); otherwise it is is_crisis = false, level none, empty reason.
C3_ElevatedExactly ==
    (crisis_result # None /\ ~HighTierFires)
        => LET res == crisis_result[1]
               thoughts == DictGet(structured, "self_harm_thoughts", PyNone)
               cond == \/ (HopelessAtLeast8 /\ ((thoughts.t = "bool" /\ thoughts.b) \/ SelfHarmTermInText))
                       \/ (RiskAtLeast18 /\ AlarmingPhraseInText)
           IN IF cond
              THEN res.is_crisis /\ res.level = "elevated"
              ELSE ~res.is_crisis /\ res.level = "none" /\ res.reason = ""

\* C3 witness: HIGH does not fire, hopelessness_score is the non-numeric "9", and the
\* result is elevated through risk_score >= 18 with an alarming phrase in the text.
C3_Witness ==
    /\ crisis_result # None
    /\ ~HighTierFires
    /\ DictGet(structured, "hopelessness_score", PyNone).t = "str"
    /\ RiskAtLeast18 /\ AlarmingPhraseInText
    /\ crisis_result[1].level = "elevated"

\* C3 second case reached: a none result although elevated terms are in the text.
C3_WitnessNone ==
    /\ crisis_result # None
    /\ ~HighTierFires
    /\ ElevatedTermInText
    /\ crisis_result[1].level = "none"

(***************************************************************************)
(* SpecStats: compute_signal_stats applied to a drawn list of values       *)
(***************************************************************************)
MaxSamples == 8
MaxDays == 11

ValuePool == {3600, 4500}

InitStats ==
    /\ \E n \in 0..MaxSamples : \E v \in [1..n -> ValuePool] : values = v
    /\ total_days \in 0..MaxDays
    /\ stats_result = None
    /\ RapidIdle /\ CrisisIdle /\ DriftIdle /\ DbIdle /\ CallIdle

StatsCompute ==
    /\ stats_result = None
    /\ stats_result' = Some(compute_signal_stats(values, total_days))
    /\ UNCHANGED <<values, total_days, rapidVars, crisisVars, driftVars, dbVars, callVars>>

NextStats == StatsCompute

SpecStats == InitStats /\ [][NextStats]_vars

\* C6: mean, median and std are all non-null if and only if samples >= 7 and
\* coverage_percent >= 70, with coverage_percent = samples / window_days * 100;
\* otherwise all three are null.  6 values in a 6-day window give nulls; 7 values
\* in a 10-day window give coverage 70.0 and non-null statistics.
C6_StatsGate ==
    stats_result # None
        => LET res == stats_result[1]
               samples == Len(values)
               populated == res.mean # None /\ res.median # None /\ res.std # None
               empty == res.mean = None /\ res.median = None /\ res.std = None
           IN /\ res.samples = samples
              /\ populated \/ empty
              /\ populated <=> (samples >= 7 /\ res.coverage_percent >= 7000)
              /\ total_days > 0 =>
                    /\ res.coverage_percent = RoundHalfEven(samples * 10000, total_days)
                    /\ (res.coverage_percent >= 7000) <=> (samples * 100 >= 70 * total_days)
              /\ (samples = 6 /\ total_days = 6) => empty
              /\ (samples = 7 /\ total_days = 10) => (res.coverage_percent = 7000 /\ populated)

\* C6 witness: 7 values in a 10-day window, coverage 70.0, statistics populated.
C6_Witness ==
    /\ stats_result # None
    /\ Len(values) = 7 /\ total_days = 10
    /\ stats_result[1].coverage_percent = 7000
    /\ stats_result[1].mean # None /\ stats_result[1].median # None /\ stats_result[1].std # None

\* C6 second case reached: 7 values with coverage under 70 leave the statistics null.
C6_WitnessLowCoverage ==
    /\ stats_result # None
    /\ Len(values) = 7 /\ total_days = 11
    /\ stats_result[1].mean = None

(***************************************************************************)
(* SpecDrift: compute_drift applied to a drawn signal vector and baseline  *)
(***************************************************************************)
TodayPool == {None, Some(2700), Some(4680), Some(6300)}

BaselinePool ==
    {None,
     Some([mean |-> None, median |-> None, std |-> None, coverage_percent |-> 5000, samples |-> 7]),
     Some([mean |-> Some(500), coverage_percent |-> 8000]),
     Some([mean |-> Some(500), std |-> Some(0), coverage_percent |-> 8000]),
     Some([mean |-> Some(500), std |-> Some(100), coverage_percent |-> 8000]),
     Some([mean |-> Some(500), std |-> Some(300), coverage_percent |-> 8000])}

\* Every pair of a value of today and a baseline entry.
FullCases == [today : TodayPool, baseline : BaselinePool]

\* A signal that is down, one that is up, one that is missing today.
BasicCases ==
    [today : {None, Some(2700), Some(6300)},
     baseline : {Some([mean |-> Some(500), std |-> Some(100), coverage_percent |-> 8000])}]

DriftInputs ==
    [mood_score : FullCases, anxiety_score : FullCases, sleep_hours : BasicCases,
     energy_score : BasicCases, social_score : BasicCases, hopelessness_score : BasicCases]

InitDrift ==
    /\ \E c \in DriftInputs :
          /\ signals_today = [k \in {x \in DOMAIN c : c[x].today # None} |-> c[k].today[1]]
          /\ baseline_signals = [k \in {x \in DOMAIN c : c[x].baseline # None} |-> c[k].baseline[1]]
    /\ drift_result = None
    /\ RapidIdle /\ CrisisIdle /\ StatsIdle /\ DbIdle /\ CallIdle

DriftCompute ==
    /\ drift_result = None
    /\ drift_result' = Some(compute_drift(signals_today, baseline_signals))
    /\ UNCHANGED <<signals_today, baseline_signals, rapidVars, crisisVars, statsVars, dbVars, callVars>>

NextDrift == DriftCompute

SpecDrift == InitDrift /\ [][NextDrift]_vars

SignalKeySet == SeqToSet(SIGNAL_KEYS)

TodayOf(key) == IF key \in DOMAIN signals_today THEN Some(signals_today[key]) ELSE None
BaselineMeanOf(key) == StatField(DictGet(baseline_signals, key, << >>), "mean")
BaselineStdOf(key) == StatField(DictGet(baseline_signals, key, << >>), "std")

\* A z-score is computable: the baseline std is present and > 0 (and there is a delta).
ZComputable(key) ==
    /\ TodayOf(key) # None /\ BaselineMeanOf(key) # None
    /\ BaselineStdOf(key) # None /\ BaselineStdOf(key)[1] > 0

\* The status the thresholds -1.0 and +1.0 give to a value in hundredths.
ByThreshold(x) == IF x <= -100 THEN "down" ELSE IF x >= 100 THEN "up" ELSE "stable"

\* C8: status is missing iff delta is null; when a z-score is computable the status
\* is decided by z alone (down iff z <= -1, up iff z >= 1, stable otherwise, even
\* when |delta| >= 1); only when z is not computable is it decided by delta.
C8_StatusByZAlone ==
    (drift_result # None /\ ~drift_result[1].raised)
        => \A key \in SignalKeySet :
              LET e == drift_result[1].drift[key]
              IN /\ (e.status = "missing") <=> (e.delta = None)
                 /\ ZComputable(key) => (e.z # None /\ e.status = ByThreshold(e.z[1]))
                 /\ (e.delta # None /\ ~ZComputable(key)) => e.status = ByThreshold(e.delta[1])

\* C9: delta is null iff today's value or the baseline mean is absent; z is non-null
\* only when delta is non-null and the baseline std is present and > 0; a null std,
\* a zero std and an absent baseline entry raise no error.
C9_DeltaAndZGuards ==
    drift_result # None
        => /\ ~drift_result[1].raised
           /\ \A key \in SignalKeySet :
                 LET e == drift_result[1].drift[key]
                 IN /\ (e.delta = None) <=> (TodayOf(key) = None \/ BaselineMeanOf(key) = None)
                    /\ e.z # None =>
                          /\ e.delta # None
                          /\ BaselineStdOf(key) # None
                          /\ BaselineStdOf(key)[1] > 0

\* C9 witness: a signal whose baseline std is 0 has a delta and a null z, another
\* has no baseline entry and a null delta, and nothing is raised.
C9_Witness ==
    /\ drift_result # None
    /\ ~drift_result[1].raised
    /\ \E key \in SignalKeySet :
          /\ BaselineStdOf(key) = Some(0)
          /\ drift_result[1].drift[key].delta # None
          /\ drift_result[1].drift[key].z = None
    /\ \E key \in SignalKeySet :
          /\ key \notin DOMAIN baseline_signals
          /\ TodayOf(key) # None
          /\ drift_result[1].drift[key].delta = None

DownCount == Cardinality({k \in SignalKeySet : drift_result[1].drift[k].status = "down"})
DirectionalCount == Cardinality({k \in SignalKeySet : drift_result[1].drift[k].status \in {"up", "down"}})
HasGrounding == GROUNDING_MESSAGE \in SeqToSet(drift_result[1].recommendations)

\* C10 as claimed: whenever two or more signals are down the recommendations contain
\* the grounding suggestion, also when five or six signals are up or down.
C10_GroundingAlways ==
    (drift_result # None /\ DownCount >= 2) => HasGrounding

\* C10 amended: with two or more signals down, the recommendations contain the
\* grounding suggestion exactly when at most four signals are up or down; with
\* fewer than two down they never contain it.
C10_GroundingUnlessCapped ==
    drift_result # None
        => /\ DownCount >= 2 => (HasGrounding <=> DirectionalCount <= 4)
           /\ DownCount < 2 => ~HasGrounding
           /\ Len(drift_result[1].recommendations) <= 5

\* C10 witness: two signals down among four directional ones; the grounding
\* suggestion is the fifth message.
C10_Witness ==
    /\ drift_result # None
    /\ DownCount >= 2
    /\ DirectionalCount = 4
    /\ Len(drift_result[1].recommendations) = 5
    /\ drift_result[1].recommendations[5] = GROUNDING_MESSAGE

(***************************************************************************)
(* SpecCheckins: daily batches, micro answers, drift insights and streak   *)
(* requests of the users, served one at a time, and the passing of days    *)
(***************************************************************************)
MaxRequests == 3
MaxSubmits == 2
MaxBurst == 5
MaxInsights == 1
MaxAdvances == 1

USERS == {1}

NoDates == [entry_date |-> None, override_entry_date |-> None]

\* The bodies of POST /micro/answers, given today's date
MicroPayloads(today) ==
    { [question_id |-> 1, value |-> "3"] @@ NoDates,
      [question_id |-> 2, value |-> "4"] @@ NoDates,
      [question_id |-> 5, value |-> "Connected"] @@ NoDates,
      [question_id |-> 10, value |-> " Yes "] @@ NoDates,
      [question_id |-> 5, value |-> "Maybe"] @@ NoDates,
      [question_id |-> 5, value |-> "Isolated", entry_date |-> Some(today - 1),
       override_entry_date |-> None],
      [question_id |-> 10, value |-> "Yes", entry_date |-> None,
       override_entry_date |-> Some(today - 1)] }

Item(question_id, answer_text) ==
    [question_id |-> question_id, answer_text |-> answer_text, entry_date |-> None]

\* The bodies of POST /answers, given today's date
AnswerBatches(today) ==
    { [answers |-> <<Item(15, "yes")>>, override_datetime |-> None],
      [answers |-> <<Item(9, "7"), Item(16, "no")>>, override_datetime |-> None],
      [answers |-> <<Item(16, "I want to die ")>>, override_datetime |-> None],
      [answers |-> << >>, override_datetime |-> None],
      [answers |-> <<[Item(15, "Yes") EXCEPT !.entry_date = Some(today - 1)]>>,
       override_datetime |-> None] }

\* The window_days of GET /insights/drift
WindowDays == {7, 14}

InitCheckins ==
    /\ answers = << >>
    /\ micro_answers = << >>
    /\ user_baseline = << >>
    /\ baseline_snapshots = << >>
    /\ crisis_events = << >>
    /\ journal_entries = << >>
    /\ clock = 20 * DAY + 9 * 3600
    /\ dev_mode \in BOOLEAN
    /\ handled = [submit |-> 0, micro |-> 0, insights |-> 0, advance |-> 0]
    /\ exchange = None
    /\ rapid_evaluations = << >>
    /\ RapidIdle /\ CrisisIdle /\ StatsIdle /\ DriftIdle /\ CallIdle

Requests == handled.submit + handled.micro + handled.insights

\* A response that changed no table: a rejection, or the answer to a read.  What can
\* follow it can follow the state before it as well, so a session is followed up to
\* the first such response.
ChangedNothing ==
    /\ exchange # None
    /\ exchange[1].status_code # 200
       \/ exchange[1].handler \in {"micro_streak", "get_next_questions"}

\* A session is MaxRequests requests that are served, or a run of up to MaxBurst
\* micro answers within one day.
InBurst == handled.micro = Requests /\ handled.advance = 0 /\ handled.micro < MaxBurst

SubmitAnswers ==
    /\ ~ChangedNothing
    /\ Requests < MaxRequests /\ handled.submit < MaxSubmits
    /\ \E user \in USERS : \E payload \in AnswerBatches(local_today) :
          submit_answers(user, payload)
    /\ UNCHANGED <<rapidVars, crisisVars, statsVars, driftVars, rapid_evaluations, callVars>>

MicroAnswer ==
    /\ ~ChangedNothing
    /\ Requests < MaxRequests \/ InBurst
    /\ \E user \in USERS : \E payload \in MicroPayloads(local_today) :
          micro_answer(user, payload)
    /\ UNCHANGED <<rapidVars, crisisVars, statsVars, driftVars, rapid_evaluations, callVars>>

InsightsDrift ==
    /\ ~ChangedNothing
    /\ Requests < MaxRequests /\ handled.insights < MaxInsights
    /\ \E user \in USERS : \E window_days \in WindowDays :
       \E date_override \in {None, Some(local_today - 1)} :
       \E include_low_quality \in BOOLEAN :
          insights_drift(user, window_days, date_override, include_low_quality)
    /\ UNCHANGED <<rapidVars, crisisVars, statsVars, driftVars, rapid_evaluations, callVars>>

MicroStreak ==
    /\ ~ChangedNothing
    /\ \E user \in USERS : \E include_low_quality \in BOOLEAN :
          micro_streak(user, include_low_quality)
    /\ UNCHANGED <<rapidVars, crisisVars, statsVars, driftVars, rapid_evaluations, callVars>>

\* A day passes
AdvanceClock ==
    /\ ~ChangedNothing
    /\ Requests <= MaxRequests
    /\ handled.advance < MaxAdvances
    /\ clock' = clock + DAY
    /\ handled' = Served("advance")
    /\ UNCHANGED <<tableVars, dev_mode, exchange>>
    /\ UNCHANGED <<rapidVars, crisisVars, statsVars, driftVars, rapid_evaluations, callVars>>

NextCheckins == SubmitAnswers \/ MicroAnswer \/ InsightsDrift \/ MicroStreak \/ AdvanceClock

SpecCheckins == InitCheckins /\ [][NextCheckins]_vars

\* The rows of a table that are not flagged is_low_quality
NotLowQuality(table) == SelectSeq(table, LAMBDA row : ~row.is_low_quality)

\* The windows GET /insights/drift collects for a target date: the date itself, and
\* the baseline windows that end the day before
InsightWindows(target_date) ==
    {[start_date |-> target_date, end_date |-> target_date]}
        \cup {[start_date |-> target_date - w, end_date |-> target_date - 1] : w \in WindowDays}

\* Some row of the user that is not low quality gives the signal key = value on day
SignalHasSource(user, day, key, value) ==
    \/ \E i \in 1..Len(answers) :
           /\ answers[i].user_id = user /\ answers[i].entry_date = day
           /\ answers[i].kind = Some("daily") /\ ~answers[i].is_low_quality
           /\ DailySignalOf(answers[i]) = Some([key |-> key, value |-> value])
    \/ \E i \in 1..Len(micro_answers) :
           /\ micro_answers[i].user_id = user /\ micro_answers[i].entry_date = day
           /\ ~micro_answers[i].is_low_quality
           /\ MicroSignalOf(micro_answers[i]) = Some([key |-> key, value |-> value])

\* Collected without low-quality rows, a window holds what the tables without their
\* low-quality rows give, and every signal in it has a row that is not low quality
WindowExcludesLowQuality(user, window) ==
    LET Holds(collected) ==
            /\ collected = collect_signals_for_window(user, window.start_date, window.end_date,
                                                      TRUE, NotLowQuality(answers),
                                                      NotLowQuality(micro_answers))
            /\ \A day \in DOMAIN collected : \A key \in DOMAIN collected[day] :
                   SignalHasSource(user, day, key, collected[day][key])
    IN Holds(collect_signals_for_window(user, window.start_date, window.end_date, FALSE,
                                        answers, micro_answers))

\* fetch_micro_dates returns exactly the dates that have a micro answer of the user
\* that is not low quality
MicroDatesExcludeLowQuality(user) ==
    SeqToSet(fetch_micro_dates(user, micro_answers, FALSE))
        = {micro_answers[i].entry_date :
              i \in {j \in 1..Len(micro_answers) :
                        micro_answers[j].user_id = user /\ ~micro_answers[j].is_low_quality}}

\* The response to a request whose include_low_quality is false, or forced to false
\* outside dev mode, is the response the tables without their low-quality rows give
ResponseExcludesLowQuality ==
    exchange # None /\ exchange[1].status_code = 200 =>
        LET x == exchange[1]
        IN /\ x.handler = "insights_drift" /\ ~(x.request.include_low_quality /\ dev_mode) =>
                  /\ x.body.signals_today =
                         DictGet(collect_signals_for_window(
                                     x.user, x.body.date, x.body.date, TRUE,
                                     NotLowQuality(answers), NotLowQuality(micro_answers)),
                                 x.body.date, << >>)
                  /\ x.body.baseline =
                         compute_baseline_snapshot(
                             x.user, x.request.window_days, TRUE, x.body.date - 1,
                             NotLowQuality(answers), NotLowQuality(micro_answers))
           /\ x.handler = "micro_streak" /\ ~(x.request.include_low_quality /\ dev_mode) =>
                  SeqToSet(x.body.entry_dates_last_30)
                      = {micro_answers[i].entry_date :
                            i \in {j \in 1..Len(micro_answers) :
                                      /\ micro_answers[j].user_id = x.user
                                      /\ ~micro_answers[j].is_low_quality}}

\* C7: with include_low_quality false (the default, and forced outside dev mode),
\* after any sequence of daily and micro submissions an answer flagged is_low_quality
\* contributes nothing to derived history: the signals collected for today and for
\* a baseline window are those of the answers that are not low quality, the dates
\* fetch_micro_dates returns are those that have a micro answer that is not low
\* quality, and the drift and streak responses are built from these.
C7_LowQualityExcluded ==
    /\ \A user \in USERS :
           /\ \A target_date \in {local_today, local_today - 1} :
                  \A window \in InsightWindows(target_date) :
                      WindowExcludesLowQuality(user, window)
           /\ MicroDatesExcludeLowQuality(user)
    /\ ResponseExcludesLowQuality

\* A daily answer that is low quality and would give a signal for the target date
LowQualityDailySignalOn(user, day) ==
    \E i \in 1..Len(answers) :
        /\ answers[i].user_id = user /\ answers[i].entry_date = day
        /\ answers[i].kind = Some("daily") /\ answers[i].is_low_quality
        /\ DailySignalOf(answers[i]) # None
        /\ ~\E j \in 1..Len(answers) :
               /\ answers[j].user_id = user /\ answers[j].entry_date = day
               /\ ~answers[j].is_low_quality
               /\ DailySignalOf(answers[j]) # None
               /\ DailySignalOf(answers[j])[1].key = DailySignalOf(answers[i])[1].key

\* Outside dev mode a drift request asks for the low-quality answers as well; an
\* isolation answer of the target date is low quality, and today's signals in the
\* response have no social_score
C7_Witness ==
    /\ exchange # None
    /\ exchange[1].handler = "insights_drift" /\ exchange[1].status_code = 200
    /\ ~dev_mode /\ exchange[1].request.include_low_quality
    /\ LowQualityDailySignalOn(exchange[1].user, exchange[1].body.date)
    /\ "social_score" \notin DOMAIN exchange[1].body.signals_today

\* The baseline window of a drift response holds a day whose only isolation answer
\* is low quality, and no social_score is counted in the baseline
C7_WitnessBaseline ==
    /\ exchange # None
    /\ exchange[1].handler = "insights_drift" /\ exchange[1].status_code = 200
    /\ ~exchange[1].request.include_low_quality
    /\ LowQualityDailySignalOn(exchange[1].user, exchange[1].body.date - 1)
    /\ exchange[1].body.baseline.signals["social_score"].samples = 0

\* A micro answer that gives a signal is low quality
C7_WitnessMicroSignal ==
    \E i \in 1..Len(micro_answers) :
        /\ micro_answers[i].is_low_quality
        /\ MicroSignalOf(micro_answers[i]) # None
        /\ collect_signals_for_window(micro_answers[i].user_id, micro_answers[i].entry_date,
                                      micro_answers[i].entry_date, FALSE, answers, micro_answers)
               # collect_signals_for_window(micro_answers[i].user_id,
                                            micro_answers[i].entry_date,
                                            micro_answers[i].entry_date, TRUE, answers,
                                            micro_answers)

\* A streak response leaves out a date whose only micro answer is low quality
C7_WitnessMicroDates ==
    /\ exchange # None
    /\ exchange[1].handler = "micro_streak"
    /\ ~exchange[1].request.include_low_quality
    /\ \E i \in 1..Len(micro_answers) :
           /\ micro_answers[i].user_id = exchange[1].user
           /\ micro_answers[i].is_low_quality
           /\ micro_answers[i].entry_date \notin SeqToSet(exchange[1].body.entry_dates_last_30)


(***************************************************************************)
(* Specification: assess_input_quality and assess_structured_quality       *)
(***************************************************************************)
QualityTexts ==
    { "",
      "I felt calm and rested after a long walk today",
      "Today was okay I guess really",
      "  Feeling tired  ",
      "damn damn damn!!!!!",
      "sdfghjkl is how the whole day went for me",
      "fine fine fine fine fine fine fine fine",
      "so so so so so so sooooo so so so so rtypsdfg" }

QualityAnswerLists ==
    { << >>, <<"7">>, <<"7", "12">>, <<"", " ">>, <<"ok">>, <<"Connected">>,
      <<"Same", "same ">>, <<"yes", "no", "sometimes">>,
      <<"damn damn damn!!!!!", "Damn damn damn!!!!!">>, <<"bbbbb">> }

QualityRecentTexts ==
    { << >>,
      <<"today was okay I guess really ", "DAMN damn damn!!!!!">>,
      <<" Connected", "bbbbb", "damn damn damn!!!!! | damn damn damn!!!!!">> }

ShortWindowCounts == {0, 3, 4}

QualityCalls ==
    [fn : {"assess_input_quality"}, text : QualityTexts,
     recent_texts : QualityRecentTexts, short_window_count : ShortWindowCounts]
    \cup
    [fn : {"assess_structured_quality"}, answer_list : QualityAnswerLists,
     recent_texts : QualityRecentTexts, short_window_count : ShortWindowCounts]

InitQuality ==
    /\ call \in {Some(c) : c \in QualityCalls}
    /\ returned = None
    /\ RapidIdle /\ CrisisIdle /\ StatsIdle /\ DriftIdle /\ DbIdle

AssessInputQuality ==
    /\ returned = None
    /\ call[1].fn = "assess_input_quality"
    /\ returned' = Some(assess_input_quality(call[1].text, call[1].recent_texts,
                                             call[1].short_window_count))
    /\ UNCHANGED <<call, rapidVars, crisisVars, statsVars, driftVars, dbVars>>

AssessStructuredQuality ==
    /\ returned = None
    /\ call[1].fn = "assess_structured_quality"
    /\ returned' = Some(assess_structured_quality(call[1].answer_list, call[1].recent_texts,
                                                  call[1].short_window_count))
    /\ UNCHANGED <<call, rapidVars, crisisVars, statsVars, driftVars, dbVars>>

NextQuality == AssessInputQuality \/ AssessStructuredQuality

SpecQuality == InitQuality /\ [][NextQuality]_vars

\* The deduction the two functions attach to each flag they can raise
FlagDeduction ==
    [too_short |-> 15, low_word_count |-> 15, repeated_characters |-> 10,
     repeated_tokens |-> 10, keyboard_smash |-> 10, profanity_only |-> 20,
     duplicate_recent |-> 25, rapid_submissions |-> 10, repeated_across_fields |-> 10]

RECURSIVE SumOverFlags(_)
SumOverFlags(flagSet) ==
    IF flagSet = {} THEN 0
    ELSE LET f == CHOOSE x \in flagSet : TRUE
         IN FlagDeduction[f] + SumOverFlags(flagSet \ {f})

QualityVerdictSound(verdict) ==
    /\ \A i, j \in 1..Len(verdict.flags) : verdict.flags[i] = verdict.flags[j] => i = j
    /\ SeqToSet(verdict.flags) \subseteq DOMAIN FlagDeduction
    /\ verdict.quality_score = MaxOf(0, 100 - SumOverFlags(SeqToSet(verdict.flags)))
    /\ verdict.quality_score \in 0..100
    /\ verdict.is_low_quality = (verdict.quality_score < 60)

\* C11: for every input to assess_input_quality and assess_structured_quality,
\* each flag is raised at most once, quality_score is max(0, 100 - the sum of the
\* fixed deductions of the raised flags) and lies in 0..100, and is_low_quality is
\* true exactly when quality_score is below 60.
C11_QualityVerdict ==
    (call # None /\ call[1].fn \in {"assess_input_quality", "assess_structured_quality"}
     /\ returned # None)
        => QualityVerdictSound(returned[1])

\* The floor is met: an input whose deductions pass 100
C11_Witness ==
    /\ call # None /\ call[1].fn = "assess_input_quality" /\ returned # None
    /\ SumOverFlags(SeqToSet(returned[1].flags)) > 100
    /\ returned[1].quality_score = 0

\* A verdict at the cutoff itself, from each of the two functions
C11_WitnessCutoff ==
    /\ call # None /\ call[1].fn = "assess_structured_quality" /\ returned # None
    /\ returned[1].quality_score = 60 /\ ~returned[1].is_low_quality

(***************************************************************************)
(* SpecRotation: select_questions_with_seed and build_rotation_seed called *)
(* on drawn arguments, twice over, each time in a process whose shared     *)
(* generator stands anywhere                                               *)
(***************************************************************************)
MaxCalls == 2
MaxCount == 3

\* The pool of test_rotation.py, and a pool with two questions of one category
RotationPools ==
    { << [id |-> 1, category |-> "mood"], [id |-> 2, category |-> "sleep"],
         [id |-> 3, category |-> "energy"], [id |-> 4, category |-> "stress"] >>,
      << [id |-> 1, category |-> "mood"], [id |-> 2, category |-> "mood"],
         [id |-> 3, category |-> "sleep"] >> }

RotationMissing == { {}, {"mood"}, {"sleep", "energy"} }
RotationRecent == { {}, {2, 3}, {1, 2, 3} }
RotationExcluded == { {}, {1, 2}, {4} }
SharedRandomStates == {0, 5}

RotationCalls ==
    [fn : {"select_questions_with_seed"}, questions : RotationPools,
     missing_categories : RotationMissing, recent_question_ids : RotationRecent,
     exclude_ids : RotationExcluded, count : 0..MaxCount, seed : 0..(SeedSpace - 1)]
    \cup
    [fn : {"build_rotation_seed"}, user_id : 1..2, target_date : 19..22,
     kind : {"micro", "daily"}]

\* Either a function is called on drawn arguments, or a session of requests is served
InitRotation ==
    \/ /\ call \in {Some(c) : c \in RotationCalls}
       /\ returned = << >>
       /\ RapidIdle /\ CrisisIdle /\ StatsIdle /\ DriftIdle /\ DbIdle
    \/ InitCheckins

\* The arguments as a call of select_questions_with_seed leaves them
ArgumentsAfter(args, result) ==
    [args EXCEPT !.questions = result.questions,
                 !.missing_categories = result.missing_categories,
                 !.recent_question_ids = result.recent_question_ids,
                 !.exclude_ids = result.exclude_ids]

SelectQuestionsWithSeed ==
    /\ call # None
    /\ call[1].fn = "select_questions_with_seed"
    /\ Len(returned) < MaxCalls
    /\ \E shared_random \in SharedRandomStates :
        LET Done(result) ==
                /\ returned' = Append(returned, result)
                /\ call' = Some(ArgumentsAfter(call[1], result))
        IN Done(select_questions_with_seed(
                    call[1].questions, call[1].missing_categories,
                    call[1].recent_question_ids, call[1].exclude_ids,
                    call[1].count, call[1].seed, shared_random))
    /\ UNCHANGED <<rapidVars, crisisVars, statsVars, driftVars, dbVars>>

BuildRotationSeed ==
    /\ call # None
    /\ call[1].fn = "build_rotation_seed"
    /\ Len(returned) < MaxCalls
    /\ returned' = Append(returned, build_rotation_seed(call[1].user_id, call[1].target_date,
                                                        call[1].kind))
    /\ UNCHANGED <<call, rapidVars, crisisVars, statsVars, driftVars, dbVars>>

RotationSubmitAnswers == call = None /\ SubmitAnswers

RotationMicroAnswer == call = None /\ MicroAnswer

RotationAdvanceClock == call = None /\ AdvanceClock

GetNextQuestions ==
    /\ call = None
    /\ ~ChangedNothing
    /\ \E user \in USERS : \E kind \in {"micro", "daily"} :
       \E date_override \in {None, Some(local_today - 1)} :
       \E shared_random \in SharedRandomStates :
          get_next_questions(user, kind, date_override, shared_random)
    /\ UNCHANGED <<rapidVars, crisisVars, statsVars, driftVars, rapid_evaluations, callVars>>

NextRotation ==
    \/ SelectQuestionsWithSeed
    \/ BuildRotationSeed
    \/ RotationSubmitAnswers
    \/ RotationMicroAnswer
    \/ RotationAdvanceClock
    \/ GetNextQuestions

SpecRotation == InitRotation /\ [][NextRotation]_vars

Selecting == call # None /\ call[1].fn = "select_questions_with_seed"

IdsOf(questions) == { questions[i].id : i \in 1..Len(questions) }

NextQuestionsServed ==
    /\ exchange # None
    /\ exchange[1].handler = "get_next_questions"
    /\ exchange[1].status_code = 200

\* The rows of the user's stored answers of a kind on a date, of any quality
StoredOn(user, kind, day) ==
    { row \in SeqToSet(IF kind = "micro" THEN micro_answers ELSE answers) :
        row.user_id = user /\ row.entry_date = day }

\* C12: after any sequence of answer submissions, no id in exclude_ids appears in
\* the result of select_questions_with_seed, and select_next_questions(user, kind,
\* date) never returns a question for which the user already has a stored answer on
\* that date, core or rotating, daily or micro, of low quality or not.
C12_AnsweredNeverOffered ==
    /\ Selecting =>
        \A i \in 1..Len(returned) : IdsOf(returned[i].selected) \cap call[1].exclude_ids = {}
    /\ NextQuestionsServed =>
        \A row \in StoredOn(exchange[1].user, exchange[1].body.kind, exchange[1].body.date) :
            row.question_id \notin IdsOf(exchange[1].body.questions)

\* The daily questions are asked for on a day for which the user has stored an answer
\* to a core question and an answer to a rotating one
C12_Witness ==
    /\ NextQuestionsServed
    /\ exchange[1].body.kind = "daily"
    /\ exchange[1].body.questions # << >>
    /\ \E row \in StoredOn(exchange[1].user, "daily", exchange[1].body.date) :
        row.question_id \in IdsOf(build_daily_question_sets.core)
    /\ \E row \in StoredOn(exchange[1].user, "daily", exchange[1].body.date) :
        row.question_id \in IdsOf(build_daily_question_sets.rotating)

\* ... and on a day with a stored answer of low quality to a rotating question
C12_WitnessLowQuality ==
    /\ NextQuestionsServed
    /\ exchange[1].body.kind = "daily"
    /\ \E row \in StoredOn(exchange[1].user, "daily", exchange[1].body.date) :
        /\ row.question_id \in IdsOf(build_daily_question_sets.rotating)
        /\ row.is_low_quality

\* The micro questions are asked for on a day with a stored micro answer
C12_WitnessMicro ==
    /\ NextQuestionsServed
    /\ exchange[1].body.kind = "micro"
    /\ StoredOn(exchange[1].user, "micro", exchange[1].body.date) # {}
    /\ Len(exchange[1].body.questions) = 2

\* A call with excluded ids in the pool that returns as many questions as asked
C12_WitnessExcluded ==
    /\ Selecting /\ returned # << >>
    /\ call[1].exclude_ids \cap IdsOf(call[1].questions) # {}
    /\ Len(returned[1].selected) = call[1].count /\ call[1].count > 0

FreshIds(args) ==
    { q.id : q \in { r \in SeqToSet(args.questions) :
                        r.id \notin args.exclude_ids /\ r.id \notin args.recent_question_ids } }

RecentSelected(args, selected) ==
    \E i \in 1..Len(selected) : selected[i].id \in args.recent_question_ids

\* C14: a question whose id is in recent_question_ids appears in the result only if
\* every non-excluded fresh question appears in it as well; in particular no recent
\* question is selected when at least count fresh candidates exist.
C14_RecentOnlyPadding ==
    Selecting =>
        \A i \in 1..Len(returned) :
            RecentSelected(call[1], returned[i].selected)
                => FreshIds(call[1]) \subseteq IdsOf(returned[i].selected)

\* The part of C14 that the code keeps: enough fresh candidates, no recent question
C14_FreshSuffice ==
    Selecting =>
        \A i \in 1..Len(returned) :
            Cardinality(FreshIds(call[1])) >= call[1].count
                => ~RecentSelected(call[1], returned[i].selected)

\* The ids of the candidates the selection is made among
ConsideredIds(args) ==
    IF Cardinality(FreshIds(args)) >= args.count THEN FreshIds(args)
    ELSE IdsOf(args.questions) \ args.exclude_ids

IsMissing(args, q) == q.category \in args.missing_categories

MissingFirst(args, selected) ==
    /\ \A i, j \in 1..Len(selected) :
        (IsMissing(args, selected[i]) /\ ~IsMissing(args, selected[j])) => i < j
    /\ (\E i \in 1..Len(selected) : ~IsMissing(args, selected[i]))
        => \A q \in SeqToSet(args.questions) :
            (q.id \in ConsideredIds(args) /\ IsMissing(args, q)) => q \in SeqToSet(selected)

\* C15: the returned list places every question of a missing category before every
\* question of another category, and a question of another category is returned
\* only if all the considered candidates of missing categories are returned.
C15_MissingFirst ==
    Selecting => \A i \in 1..Len(returned) : MissingFirst(call[1], returned[i].selected)

\* A selection that holds a question of a missing category and, after it, one of
\* another category, the pool's order being the other way round
C15_Witness ==
    /\ Selecting /\ returned # << >>
    /\ Len(returned[1].selected) >= 2
    /\ IsMissing(call[1], returned[1].selected[1])
    /\ ~IsMissing(call[1], returned[1].selected[Len(returned[1].selected)])
    /\ returned[1].selected[1].id > returned[1].selected[Len(returned[1].selected)].id

\* C16: a selection never contains two questions of the same category, for every
\* pool, seed and count.
C16_DistinctCategories ==
    Selecting =>
        \A i \in 1..Len(returned) :
            \A j, k \in 1..Len(returned[i].selected) :
                returned[i].selected[j].category = returned[i].selected[k].category => j = k

(***************************************************************************)
(* SpecConfidence: the confidence of a rapid evaluation, computed from a   *)
(* drawn completion time, drawn flags and the micro answers of a user      *)
(***************************************************************************)
RAPID_QUALITY_FLAGS ==
    <<"too_fast", "failed_attention_check", "duplicate_answers", "patterned_answers",
      "extreme_only_answers">>

\* The lists rapid_submit can build: a subset of the flags, in the order it appends them
RapidFlagLists ==
    { SelectSeq(RAPID_QUALITY_FLAGS, LAMBDA f : f \in chosen) :
        chosen \in SUBSET SeqToSet(RAPID_QUALITY_FLAGS) }

CompletionTimes == {-5, 0, 24, 25, 34, 35, 59, 60, 3600}

ConfidenceToday == 20

\* Micro answers of user 1 on the given days, of the given quality
MicroRowsOn(days, is_low_quality) ==
    [i \in 1..Len(days) |->
        [user_id |-> 1, question_id |-> i, entry_date |-> days[i],
         is_low_quality |-> is_low_quality]]

MicroTables ==
    { MicroRowsOn(<< >>, FALSE),
      MicroRowsOn(<<20, 20, 20, 20, 20>>, FALSE),
      MicroRowsOn(<<18, 19, 20>>, FALSE),
      MicroRowsOn(<<18, 19, 20, 20, 20>>, FALSE),
      MicroRowsOn(<<18, 19, 20, 20, 20>>, TRUE) }

ConfidenceCalls ==
    [fn : {"rapid_confidence"}, time_taken_seconds : CompletionTimes,
     quality_flags : RapidFlagLists, micro_table : MicroTables]

InitConfidence ==
    /\ call \in {Some(c) : c \in ConfidenceCalls}
    /\ returned = None
    /\ RapidIdle /\ CrisisIdle /\ StatsIdle /\ DriftIdle /\ DbIdle

\* confidence_score = compute_rapid_confidence_score(time_taken_seconds, quality_flags)
\* micro_signal = build_micro_signal(user.id, db)
\* confidence_score = apply_micro_confidence_bonus(confidence_score, micro_signal)
RapidConfidence ==
    /\ call # None /\ call[1].fn = "rapid_confidence"
    /\ returned = None
    /\ LET Final(computed, micro_signal) ==
               returned' = Some([computed |-> computed,
                                 micro_signal |-> micro_signal,
                                 final |-> apply_micro_confidence_bonus(computed, micro_signal)])
       IN Final(compute_rapid_confidence_score(call[1].time_taken_seconds,
                                               call[1].quality_flags),
                build_micro_signal(1, call[1].micro_table, ConfidenceToday, FALSE))
    /\ UNCHANGED <<call, rapidVars, crisisVars, statsVars, driftVars, dbVars>>

NextConfidence == RapidConfidence

SpecConfidence == InitConfidence /\ [][NextConfidence]_vars

ConfidenceReturned == call # None /\ call[1].fn = "rapid_confidence" /\ returned # None

\* C19: the final rapid confidence score, compute_rapid_confidence_score followed by
\* apply_micro_confidence_bonus, lies in [0.05, 0.95]; the bonus raises the score by
\* at most 0.05 and never lowers it.
C19_ConfidenceBounds ==
    ConfidenceReturned =>
        /\ 50 <= returned[1].final /\ returned[1].final <= 950
        /\ returned[1].final >= returned[1].computed
        /\ returned[1].final - returned[1].computed <= 50

\* The floor is met and the full bonus is added on top of it
C19_Witness ==
    /\ ConfidenceReturned
    /\ RawRapidConfidence(call[1].time_taken_seconds, call[1].quality_flags) < 50
    /\ returned[1].micro_signal.confidence_bonus = 50
    /\ returned[1].final = 100

\* The highest score there is, with a bonus
C19_WitnessHigh ==
    /\ ConfidenceReturned
    /\ returned[1].computed = 750
    /\ returned[1].final = 780

(***************************************************************************)
(* SpecNormalize: the normalisers of baseline_engine.py as pure functions  *)
(***************************************************************************)
\* The categories of the question bank, an unknown one, a miscapitalised one and none
NormalizeCategories ==
    {"", "mood", "anxiety", "energy", "sleep", "hopelessness", "isolation", "support",
     "connection", "stress", "Mood"}

\* Answers: in range, below and above every scale, very large, decimals, words
NormalizeAnswers ==
    {"", "7", "0", "-3", "15", "200000", "-200000", "4.5", "12.5 h", "slept 3 hours",
     "yes", " No ", "connected", "Isolated", "fine", "y", "TRUE", "1", "n", "false"}

NormalizeCalls ==
    [fn : {"normalize_daily_answer", "normalize_micro_answer"},
     category : NormalizeCategories, raw : NormalizeAnswers]

InitNormalize ==
    /\ call \in {Some(c) : c \in NormalizeCalls}
    /\ returned = None
    /\ RapidIdle /\ CrisisIdle /\ StatsIdle /\ DriftIdle /\ DbIdle

NormalizeDailyAnswer ==
    /\ call # None /\ call[1].fn = "normalize_daily_answer"
    /\ returned = None
    /\ returned' = Some(normalize_daily_answer(call[1].category, call[1].raw))
    /\ UNCHANGED <<call, rapidVars, crisisVars, statsVars, driftVars, dbVars>>

NormalizeMicroAnswer ==
    /\ call # None /\ call[1].fn = "normalize_micro_answer"
    /\ returned = None
    /\ returned' = Some(normalize_micro_answer(call[1].category, call[1].raw))
    /\ UNCHANGED <<call, rapidVars, crisisVars, statsVars, driftVars, dbVars>>

NextNormalize == NormalizeDailyAnswer \/ NormalizeMicroAnswer

SpecNormalize == InitNormalize /\ [][NextNormalize]_vars

NormalizeReturned ==
    /\ call # None
    /\ call[1].fn \in {"normalize_daily_answer", "normalize_micro_answer"}
    /\ returned # None

\* The categories whose branch reads the first number of the answer
NumericCategories(fn) ==
    IF fn = "normalize_daily_answer"
    THEN {"mood", "anxiety", "energy", "sleep", "hopelessness"}
    ELSE {"mood", "anxiety", "energy", "hopelessness"}

\* The categories that have a branch at all
RecognisedCategories(fn) == NumericCategories(fn) \cup {"isolation", "support", "connection"}

\* C20: normalize_daily_answer and normalize_micro_answer return None or one of the six
\* signal keys with a value in [0, 10], or in [0, 12] for sleep_hours; a number outside
\* the scale is clamped and never rejected; an unrecognised category returns None.
C20_NormalisedRange ==
    NormalizeReturned =>
        /\ returned[1] # None =>
               /\ returned[1][1].key \in SignalKeySet
               /\ 0 <= returned[1][1].value
               /\ returned[1][1].value
                      <= (IF returned[1][1].key = "sleep_hours" THEN 12 * 900 ELSE 10 * 900)
        /\ (/\ call[1].category \in NumericCategories(call[1].fn)
            /\ parse_first_number(call[1].raw) # None) => returned[1] # None
        /\ call[1].category \notin RecognisedCategories(call[1].fn) => returned[1] = None

\* A mood of 15 is clamped to the top of the scale
C20_Witness ==
    /\ NormalizeReturned
    /\ call[1].category = "mood" /\ call[1].raw = "15"
    /\ returned[1] = Some([key |-> "mood_score", value |-> 9000])

\* A very large negative number of hours is clamped to no sleep
C20_WitnessSleep ==
    /\ NormalizeReturned
    /\ call[1].category = "sleep" /\ call[1].raw = "-200000"
    /\ returned[1] = Some([key |-> "sleep_hours", value |-> 0])

\* A number for a category without a branch is dropped
C20_WitnessUnrecognised ==
    /\ NormalizeReturned
    /\ call[1].category = "stress" /\ call[1].raw = "7"
    /\ returned[1] = None

HopelessnessReturned ==
    /\ NormalizeReturned
    /\ call[1].fn = "normalize_daily_answer"
    /\ call[1].category = "hopelessness"

HopelessnessScore(value) == Some([key |-> "hopelessness_score", value |-> value])

\* C24: for the hopelessness category normalize_daily_answer reads yes/no text: yes, y,
\* true and 1 give hopelessness_score 10 and every other answer that is not a rating
\* gives hopelessness_score 0; a value is always returned, never None.
C24_HopelessnessElseZero ==
    HopelessnessReturned =>
        LET lowered == StrLower(StrStrip(call[1].raw))
        IN /\ returned[1] # None
           /\ lowered \in {"yes", "y", "true", "1"} => returned[1] = HopelessnessScore(9000)
           /\ (lowered \notin {"yes", "y", "true", "1"} /\ parse_first_number(call[1].raw) = None)
                  => returned[1] = HopelessnessScore(0)

\* What the code does: yes, y and true give 10, no, n and false give 0, any other answer
\* without a number gives no value, and 1, holding a number, is the lowest rating.
C24_HopelessnessYesNo ==
    HopelessnessReturned =>
        LET lowered == StrLower(StrStrip(call[1].raw))
        IN /\ lowered \in {"yes", "y", "true"} => returned[1] = HopelessnessScore(9000)
           /\ lowered \in {"no", "n", "false"} => returned[1] = HopelessnessScore(0)
           /\ (/\ lowered \notin {"yes", "y", "true", "no", "n", "false"}
               /\ parse_first_number(call[1].raw) = None) => returned[1] = None
           /\ lowered = "1" => returned[1] = HopelessnessScore(0)

\* An answer that is neither a rating nor yes/no text gives no hopelessness signal
C24_Witness ==
    /\ HopelessnessReturned
    /\ call[1].raw = "fine"
    /\ returned[1] = None

\* The answer yes gives the top of the scale
C24_WitnessYes ==
    /\ HopelessnessReturned
    /\ call[1].raw = "yes"
    /\ returned[1] = HopelessnessScore(9000)

(***************************************************************************)
(* SpecRapidSubmit: sessions of POST /rapid/start and POST /rapid/submit   *)
(***************************************************************************)
MaxStarts == 1
MaxRapid == 2
MaxWaits == 2

RapidItem(question_id, answer_text) == [question_id |-> question_id, answer_text |-> answer_text]

\* Lists of answers: a scored sheet with the expected attention answer, the same sheet
\* with another attention answer and with none, a calm sheet, six equal answers, the
\* two ratings at the extremes, a plan, and a question answered twice
RapidAnswerSheets ==
    { <<RapidItem(1, "3"), RapidItem(2, "8"), RapidItem(3, "yes"), RapidItem(11, " Sometimes")>>,
      <<RapidItem(1, "3"), RapidItem(2, "8"), RapidItem(3, "yes"), RapidItem(11, "Often")>>,
      <<RapidItem(1, "3"), RapidItem(2, "8"), RapidItem(3, "yes")>>,
      <<RapidItem(1, "7"), RapidItem(2, "4"), RapidItem(7, "yes"), RapidItem(11, "sometimes")>>,
      <<RapidItem(3, "no"), RapidItem(4, "no"), RapidItem(7, "no"), RapidItem(8, "no"),
        RapidItem(9, "no"), RapidItem(10, "no"), RapidItem(11, "Sometimes")>>,
      <<RapidItem(1, "1"), RapidItem(2, "10"), RapidItem(11, "Sometimes")>>,
      <<RapidItem(8, "yes"), RapidItem(9, "Yes"), RapidItem(11, "Sometimes")>>,
      <<RapidItem(1, "9"), RapidItem(11, "Never"), RapidItem(1, "2"), RapidItem(11, "Sometimes")>> }

\* The evaluation started last, when it is still open
OpenSessions ==
    IF rapid_evaluations # << >> /\ rapid_evaluations[Len(rapid_evaluations)].submitted_at = None
    THEN {Len(rapid_evaluations)} ELSE {}

\* The bodies of POST /rapid/submit: every sheet within the open session and without
\* one, then a submission without a start time, an unknown session, no answers, an
\* unknown question, yesterday's date and an overridden instant
RapidPayloads ==
    LET Body(answer_list, session_id, started_at) ==
            [entry_date |-> None, started_at |-> started_at, session_id |-> session_id,
             override_datetime |-> None, answers |-> answer_list]
        sheet == CHOOSE a \in RapidAnswerSheets : Len(a) = 4 /\ a[4].answer_text = " Sometimes"
    IN { Body(a, Some(id), None) : a \in RapidAnswerSheets, id \in OpenSessions }
       \cup { Body(a, None, Some(clock - 30)) : a \in RapidAnswerSheets }
       \cup { Body(sheet, None, None),
              Body(sheet, Some(99), None),
              Body(<< >>, None, Some(clock - 30)),
              Body(<<RapidItem(1, "3"), RapidItem(12, "yes")>>, None, Some(clock - 30)),
              [Body(sheet, None, Some(clock - 70)) EXCEPT !.entry_date = Some(local_today - 1)],
              [Body(sheet, None, Some(clock - 70)) EXCEPT
                  !.override_datetime = Some(clock + 3600)] }

InitRapidSubmit ==
    /\ answers = << >>
    /\ micro_answers = << >>
    /\ user_baseline = << >>
    /\ baseline_snapshots = << >>
    /\ crisis_events = << >>
    /\ journal_entries = << >>
    /\ rapid_evaluations = << >>
    /\ clock = 20 * DAY + 9 * 3600
    /\ dev_mode \in BOOLEAN
    /\ handled = [start |-> 0, rapid |-> 0, wait |-> 0]
    /\ exchange = None
    /\ RapidIdle /\ CrisisIdle /\ StatsIdle /\ DriftIdle /\ CallIdle

RapidStart ==
    /\ ~ChangedNothing
    /\ handled.start < MaxStarts
    /\ \E user \in USERS : \E entry_date \in {None, Some(local_today - 1)} :
          rapid_start(user, [entry_date |-> entry_date])
    /\ UNCHANGED <<rapidVars, crisisVars, statsVars, driftVars, callVars>>

RapidSubmit ==
    /\ ~ChangedNothing
    /\ handled.rapid < MaxRapid
    /\ \E user \in USERS : \E payload \in RapidPayloads : rapid_submit(user, payload)
    /\ UNCHANGED <<rapidVars, crisisVars, statsVars, driftVars, callVars>>

\* The user takes some time over the questions, or comes back after the cooldown
RapidWait ==
    /\ ~ChangedNothing
    /\ handled.wait < MaxWaits
    /\ \E seconds \in {23, 300} : clock' = clock + seconds
    /\ handled' = Served("wait")
    /\ UNCHANGED <<tableVars, dev_mode, exchange, rapid_evaluations>>
    /\ UNCHANGED <<rapidVars, crisisVars, statsVars, driftVars, callVars>>

NextRapidSubmit == RapidStart \/ RapidSubmit \/ RapidWait

SpecRapidSubmit == InitRapidSubmit /\ [][NextRapidSubmit]_vars


\* The evaluations that were submitted
SubmittedRows == {i \in 1..Len(rapid_evaluations) : rapid_evaluations[i].submitted_at # None}

\* answers_json of a sheet, and its answers to the scored questions: every question
\* but the attention check
SheetJson == [a \in RapidAnswerSheets |-> JsonDumps(RapidAnswersBySlug(a))]
SheetScored ==
    [a \in RapidAnswerSheets |->
        RapidAnswersBySlug(
            SelectSeq(a, LAMBDA item :
                RAPID_QUESTIONS[item.question_id] # "rapid_attention_check")).map]

\* The sheet's last answer to the attention check is the expected choice
ExpectedChoice(a) ==
    LET given == SelectSeq(a, LAMBDA item :
                     RAPID_QUESTIONS[item.question_id] = "rapid_attention_check")
    IN given # << >> /\ StrLower(StrStrip(given[Len(given)].answer_text)) = "sometimes"

\* The last request was a rapid submission that was stored
RapidSubmitServed ==
    /\ exchange # None
    /\ exchange[1].handler = "rapid_submit"
    /\ exchange[1].status_code = 200

\* The row the last rapid submission wrote
WrittenRow ==
    IF exchange[1].request.session_id # None
    THEN rapid_evaluations[exchange[1].request.session_id[1]]
    ELSE rapid_evaluations[Len(rapid_evaluations)]

\* C17: the validity gate does not alter the score: evaluations with the same answers
\* to the scored questions are stored with the same score and level whatever their
\* completion times and attention answers, the response carries the stored score and
\* level, and is_valid is false whenever the completion time is under 25 seconds or
\* the attention answer is not the expected choice.
C17_GateLeavesScore ==
    /\ \A i \in SubmittedRows : \A j \in SubmittedRows : \A a, b \in RapidAnswerSheets :
           (/\ rapid_evaluations[i].answers_json = SheetJson[a]
            /\ rapid_evaluations[j].answers_json = SheetJson[b]
            /\ SheetScored[a] = SheetScored[b])
           => /\ rapid_evaluations[i].score = rapid_evaluations[j].score
              /\ rapid_evaluations[i].level = rapid_evaluations[j].level
    /\ \A i \in SubmittedRows :
           /\ rapid_evaluations[i].submitted_at[1] - rapid_evaluations[i].started_at[1] < 25
                  => ~rapid_evaluations[i].is_valid
           /\ \A a \in RapidAnswerSheets :
                  (rapid_evaluations[i].answers_json = SheetJson[a] /\ ~ExpectedChoice(a))
                  => ~rapid_evaluations[i].is_valid
    /\ RapidSubmitServed =>
           /\ exchange[1].body.score = WrittenRow.score
           /\ exchange[1].body.level = WrittenRow.level
           /\ exchange[1].body.is_valid = WrittenRow.is_valid
           /\ exchange[1].body.time_taken_seconds
                  = WrittenRow.submitted_at[1] - WrittenRow.started_at[1]

\* Two evaluations with the same scored answers and the same score above zero: one
\* passed the gate, the other failed the attention check after another completion time
C17_Witness ==
    \E i \in SubmittedRows : \E j \in SubmittedRows : \E a, b \in RapidAnswerSheets :
        /\ rapid_evaluations[i].answers_json = SheetJson[a]
        /\ rapid_evaluations[j].answers_json = SheetJson[b]
        /\ SheetScored[a] = SheetScored[b]
        /\ ExpectedChoice(a) /\ ~ExpectedChoice(b)
        /\ rapid_evaluations[i].is_valid /\ ~rapid_evaluations[j].is_valid
        /\ rapid_evaluations[i].time_taken_seconds # rapid_evaluations[j].time_taken_seconds
        /\ rapid_evaluations[i].score = 10 /\ rapid_evaluations[j].score = 10
        /\ rapid_evaluations[i].level = "YELLOW"

\* An evaluation with the expected attention answer that took under 25 seconds
C17_WitnessTooFast ==
    /\ RapidSubmitServed
    /\ exchange[1].body.time_taken_seconds < 25
    /\ exchange[1].body.quality_flags = <<"too_fast">>
    /\ ~WrittenRow.is_valid
    /\ WrittenRow.score > 0

INVALIDATING_FLAGS == {"too_fast", "failed_attention_check", "duplicate_answers"}
SOFT_FLAGS == {"patterned_answers", "extreme_only_answers"}

\* The confidence of the last submission had it raised no soft flag
ConfidenceWithoutSoftFlags ==
    apply_micro_confidence_bonus(
        compute_rapid_confidence_score(
            exchange[1].body.time_taken_seconds,
            SelectSeq(exchange[1].body.quality_flags, LAMBDA flag : flag \notin SOFT_FLAGS)),
        exchange[1].body.micro_signal)

\* C18 as stated: is_valid is false only when too_fast or failed_attention_check is
\* raised.
C18_OnlyGateInvalidates ==
    \A i \in SubmittedRows :
        ~rapid_evaluations[i].is_valid =>
            \/ "too_fast" \in SeqToSet(rapid_evaluations[i].quality_flags_json)
            \/ "failed_attention_check" \in SeqToSet(rapid_evaluations[i].quality_flags_json)

\* C18, amended: is_valid is false only when too_fast, failed_attention_check or
\* duplicate_answers is raised, and then always; patterned_answers and
\* extreme_only_answers take 0.10 each off the confidence score, down to its floor, and
\* never make is_valid false on their own.
C18_OnlyInvalidFlagsInvalidate ==
    /\ \A i \in SubmittedRows :
           ~rapid_evaluations[i].is_valid
               <=> SeqToSet(rapid_evaluations[i].quality_flags_json) \cap INVALIDATING_FLAGS # {}
    /\ (/\ RapidSubmitServed
        /\ SeqToSet(exchange[1].body.quality_flags) \cap SOFT_FLAGS # {})
       => \/ exchange[1].body.confidence_score
                 = ConfidenceWithoutSoftFlags
                       - 100 * Cardinality(SeqToSet(exchange[1].body.quality_flags) \cap SOFT_FLAGS)
          \/ /\ exchange[1].body.confidence_score = CONFIDENCE_FLOOR
             /\ exchange[1].body.confidence_score <= ConfidenceWithoutSoftFlags

\* A valid evaluation whose only flag is patterned_answers, with 0.10 off its confidence
C18_Witness ==
    /\ RapidSubmitServed
    /\ exchange[1].body.quality_flags = <<"patterned_answers">>
    /\ WrittenRow.is_valid
    /\ exchange[1].body.confidence_score = ConfidenceWithoutSoftFlags - 100

\* An evaluation that only repeats the answers of the last valid one is invalid
C18_WitnessDuplicate ==
    /\ RapidSubmitServed
    /\ exchange[1].body.quality_flags = <<"duplicate_answers">>
    /\ ~WrittenRow.is_valid

\* A valid evaluation whose only flag is extreme_only_answers
C18_WitnessExtreme ==
    /\ RapidSubmitServed
    /\ exchange[1].body.quality_flags = <<"extreme_only_answers">>
    /\ WrittenRow.is_valid


(***************************************************************************)
(* SpecPatterned: detect_patterned_answers as a pure function              *)
(***************************************************************************)
MaxAnswers == 6

\* What a client can send as one answer
PatternTexts == {"yes", " YES", "no", ""}

\* An answer to each of the first n questions, with or without an answer to the
\* attention check
PatternSheets ==
    UNION { { [i \in 1..n |-> RapidItem(i, f[i])] \o tail : f \in [1..n -> PatternTexts] } :
            n \in 0..MaxAnswers, tail \in {<< >>, <<RapidItem(11, "yes")>>} }

InitPatterned ==
    /\ call \in {Some([fn |-> "detect_patterned_answers", answers |-> a]) : a \in PatternSheets}
    /\ returned = None
    /\ RapidIdle /\ CrisisIdle /\ StatsIdle /\ DriftIdle /\ DbIdle

DetectPatternedAnswers ==
    /\ call # None /\ call[1].fn = "detect_patterned_answers"
    /\ returned = None
    /\ returned' = Some(detect_patterned_answers(RapidAnswersBySlug(call[1].answers)))
    /\ UNCHANGED <<call, rapidVars, crisisVars, statsVars, driftVars, dbVars>>

NextPatterned == DetectPatternedAnswers

SpecPatterned == InitPatterned /\ [][NextPatterned]_vars

PatternedReturned ==
    call # None /\ call[1].fn = "detect_patterned_answers" /\ returned # None

\* The positions of the answers that count: not the attention check, not blank
CountedAnswers(items) ==
    {i \in 1..Len(items) :
        /\ RAPID_QUESTIONS[items[i].question_id] # "rapid_attention_check"
        /\ StrStrip(items[i].answer_text) # ""}

\* The number of counted answers that say the same as the one at position i
SameAs(items, i) ==
    Cardinality({j \in CountedAnswers(items) :
                    StrLower(StrStrip(items[j].answer_text))
                        = StrLower(StrStrip(items[i].answer_text))})

\* The most common value accounts for at least 80% of the counted answers
MostCommonShare(items) ==
    \E i \in CountedAnswers(items) : 10 * SameAs(items, i) >= 8 * Cardinality(CountedAnswers(items))

\* C22 as stated: patterned_answers is raised whenever the most common value accounts
\* for at least 80% of the non-empty non-attention-check answers, for any number of
\* answers.
C22_PatternedAnyNumber ==
    PatternedReturned => (MostCommonShare(call[1].answers) => returned[1])

\* C22, amended: patterned_answers is raised exactly when there are at least five
\* non-empty non-attention-check answers and the most common value accounts for at
\* least 80% of them; five or more identical answers always raise it, fewer than five
\* answers never do.
C22_PatternedFromFive ==
    PatternedReturned =>
        /\ returned[1] <=> (/\ Cardinality(CountedAnswers(call[1].answers)) >= 5
                            /\ MostCommonShare(call[1].answers))
        /\ (/\ Cardinality(CountedAnswers(call[1].answers)) >= 5
            /\ \A i \in CountedAnswers(call[1].answers) :
                   SameAs(call[1].answers, i) = Cardinality(CountedAnswers(call[1].answers)))
           => returned[1]

\* Four of five answers agree, one differs: raised
C22_Witness ==
    /\ PatternedReturned
    /\ Cardinality(CountedAnswers(call[1].answers)) = 5
    /\ \E i \in CountedAnswers(call[1].answers) : SameAs(call[1].answers, i) = 4
    /\ returned[1]

\* Four answers, all identical: not raised
C22_WitnessFour ==
    /\ PatternedReturned
    /\ Cardinality(CountedAnswers(call[1].answers)) = 4
    /\ \A i \in CountedAnswers(call[1].answers) : SameAs(call[1].answers, i) = 4
    /\ ~returned[1]

(***************************************************************************)
(* Specification: the repeated_across_fields flag of                        *)
(* assess_structured_quality                                               *)
(***************************************************************************)
MaxFields == 3

RepeatedTexts == {"same answer", "Same Answer", "other answer", "abc", ""}

RepeatedAnswerLists ==
    UNION { [1..n -> RepeatedTexts] : n \in 0..MaxFields }

InitRepeated ==
    /\ call \in {Some([fn |-> "assess_structured_quality", answer_list |-> a,
                       recent_texts |-> << >>, short_window_count |-> 0]) :
                    a \in RepeatedAnswerLists}
    /\ returned = None
    /\ RapidIdle /\ CrisisIdle /\ StatsIdle /\ DriftIdle /\ DbIdle

NextRepeated == AssessStructuredQuality

SpecRepeated == InitRepeated /\ [][NextRepeated]_vars

RepeatedReturned == returned # None /\ call[1].fn = "assess_structured_quality"

RaisesRepeated == "repeated_across_fields" \in SeqToSet(returned[1].flags)

\* C23: repeated_across_fields is raised if and only if at least two answers
\* were supplied, every answer has at least 4 characters and all answers are
\* identical ignoring case; a batch with an empty or differing answer never
\* raises it.
C23_RepeatedIffAllIdentical ==
    RepeatedReturned =>
        LET given == call[1].answer_list
        IN RaisesRepeated <=>
              /\ Len(given) >= 2
              /\ \A i \in 1..Len(given) : Len(given[i]) >= 4
              /\ \A i, j \in 1..Len(given) : StrLower(given[i]) = StrLower(given[j])

\* The part the code keeps: the flag needs two answers, a first answer of at
\* least 4 characters, and no two non-empty answers that differ ignoring case.
C23_RepeatedNeedsIdentical ==
    (RepeatedReturned /\ RaisesRepeated) =>
        LET given == call[1].answer_list
        IN /\ Len(given) >= 2
           /\ Len(given[1]) >= 4
           /\ \A i, j \in 1..Len(given) :
                 (given[i] # "" /\ given[j] # "") => StrLower(given[i]) = StrLower(given[j])

\* One real answer and one empty answer, flagged as repeated
C23_WitnessEmptyField ==
    /\ RepeatedReturned
    /\ call[1].answer_list = <<"same answer", "">>
    /\ RaisesRepeated

(***************************************************************************)
(* Evaluation engine (evaluation_engine.py)                                *)
(***************************************************************************)
FOLLOWUP_BANK ==
    << [key |-> "followup_mood", prompt |-> "Can you rate your mood right now (1-10)?", category |-> "mood"],
       [key |-> "followup_safety", prompt |-> "Do you feel safe right now?", category |-> "safety"],
       [key |-> "followup_support", prompt |-> "Is there someone you can reach out to today?", category |-> "support"],
       [key |-> "followup_sleep", prompt |-> "How was your sleep last night?", category |-> "sleep"],
       [key |-> "followup_anxiety", prompt |-> "How intense is your anxiety right now (1-10)?", category |-> "anxiety"] >>

\* A dict from key to text, with its keys in insertion order
EmptyDict == [keys |-> << >>, map |-> [k \in {} |-> ""]]

\* d.update(e)
DictUpdate(d, e) ==
    [keys |-> DictFromKeys(d.keys \o e.keys),
     map |-> [k \in SeqToSet(d.keys) \cup SeqToSet(e.keys) |->
                 IF k \in SeqToSet(e.keys) THEN e.map[k] ELSE d.map[k]]]

\* inputs.get(key, ""); a missing key and an empty text are both falsy
InputsGet(d, k) == IF k \in SeqToSet(d.keys) THEN d.map[k] ELSE ""

\* a or b or c
FirstTruthy(a, b, c) == IF a # "" THEN a ELSE IF b # "" THEN b ELSE c

engine_is_yes(value) == StrLower(StrStrip(value)) \in {"yes", "y", "true", "1"}

engine_parse_numeric(value) ==
    LET Parsed(digits) == IF digits = "" THEN None ELSE Some(StrToInt(digits))
    IN Parsed(DigitsOf(value))

RISK_KEYWORDS ==
    <<"suicide", "kill myself", "end it", "end my life", "self-harm", "self harm", "can't go on">>

engine_contains_risk_keywords(text) ==
    LET AnyIn(lowered) == \E i \in 1..Len(RISK_KEYWORDS) : StrContains(lowered, RISK_KEYWORDS[i])
    IN AnyIn(StrLower(text))

\* The number of characters that are neither alphanumeric nor whitespace
SymbolCount(text) ==
    Cardinality({i \in 1..Len(text) :
                    LET c == Ch(text, i)
                    IN ~(IsLowerLetter(c) \/ IsUpper(c) \/ IsDigitCh(c)) /\ ~IsSpaceCh(c)})

\* symbol_char_ratio(text) > 0.35, in whole numbers
symbol_char_ratio_above_035(text) ==
    text # "" /\ 100 * SymbolCount(text) > 35 * MaxOf(1, Len(text))

contradiction_detected(inputs) ==
    LET Detected(mood_value, hopeless) == mood_value # None /\ mood_value[1] >= 8 /\ hopeless
    IN Detected(engine_parse_numeric(FirstTruthy(InputsGet(inputs, "daily_mood"),
                                                 InputsGet(inputs, "rapid_mood"), "")),
                engine_is_yes(InputsGet(inputs, "daily_hopeless"))
                    \/ engine_is_yes(InputsGet(inputs, "rapid_hopeless")))

ENGINE_FLAG_LABELS ==
    [too_short |-> "Too short", low_word_count |-> "Not enough detail",
     repeated_tokens |-> "Repetitive wording", repeated_characters |-> "Repeated characters",
     gibberish_symbols |-> "High symbol ratio", too_fast |-> "Completed very quickly",
     contradiction |-> "Answers conflict"]

summarize_flags(flags) ==
    IF flags = << >> THEN "Looks consistent."
    ELSE StrJoin("; ", [i \in 1..MinOf(3, Len(flags)) |-> ENGINE_FLAG_LABELS[flags[i]]])

\* The penalties of assess_quality, in hundredths
ENGINE_PENALTIES ==
    [too_short |-> 15, low_word_count |-> 15, repeated_tokens |-> 10,
     repeated_characters |-> 10, gibberish_symbols |-> 20, too_fast |-> 20,
     contradiction |-> 15]

RECURSIVE SumPenalties(_)
SumPenalties(flags) ==
    IF flags = << >> THEN 0 ELSE ENGINE_PENALTIES[flags[1]] + SumPenalties(Tail(flags))

\* score < 0.4 as the code evaluates it.  The score is a binary floating-point
\* number: 1.0 - 0.15 - 0.15 - 0.1 - 0.2 and 1.0 - 0.15 - 0.15 - 0.2 - 0.1 give
\* 0.39999999999999997, every other run of penalties that adds up to 0.6 gives
\* 0.4 or 0.4000000000000001.
ScoreBelowFakeCutoff(flags, score) ==
    \/ score < 40
    \/ score = 40 /\ {"too_short", "low_word_count"} \subseteq SeqToSet(flags)

\* The flags of assess_quality, in the order the code appends them
EngineFlags(combined, tokens, duration_seconds, answer_map) ==
    FlagIf(Len(combined) < 20, "too_short")
    \o FlagIf(Len(tokens) < 4, "low_word_count")
    \o FlagIf(tokens # << >> /\ 2 * Cardinality(SeqToSet(tokens)) < Len(tokens), "repeated_tokens")
    \o FlagIf(HasRepeatedCharacters(StrLower(combined)), "repeated_characters")
    \o FlagIf(symbol_char_ratio_above_035(combined), "gibberish_symbols")
    \o FlagIf(duration_seconds # None /\ duration_seconds[1] < 15, "too_fast")
    \o FlagIf(contradiction_detected(answer_map), "contradiction")

assess_quality(text, answer_map, duration_seconds) ==
    LET Result(flags, score) ==
            [score |-> score,
             flags |-> flags,
             is_suspected_fake |-> ScoreBelowFakeCutoff(flags, score)
                                       \/ "gibberish_symbols" \in SeqToSet(flags),
             reason_summary |-> summarize_flags(flags)]
        Scored(flags) == Result(flags, MaxOf(0, MinOf(100, 100 - SumPenalties(flags))))
        Combined(combined) ==
            Scored(EngineFlags(combined, Tokens(StrLower(combined)), duration_seconds, answer_map))
    IN Combined(StrStrip(StrJoin(" ", <<text>> \o DictValues(answer_map))))

select_followups(inputs) ==
    LET first ==
            FlagIf(InputsGet(inputs, "daily_mood") = "" /\ InputsGet(inputs, "rapid_mood") = "",
                   FOLLOWUP_BANK[1])
            \o FlagIf(InputsGet(inputs, "daily_anxiety") = ""
                          /\ InputsGet(inputs, "rapid_anxiety") = "",
                      FOLLOWUP_BANK[5])
        Rest(prompts) ==
            prompts \o SelectSeq(FOLLOWUP_BANK, LAMBDA item : item \notin SeqToSet(prompts))
    IN Take(Rest(first), 2)

\* A confidence the suspicion of a fake does not cap (not the code's)
EngineConfidence_NoFakeCap(score, is_suspected_fake) ==
    MaxOf(50, MinOf(950, 7 * score + 300))

\* The confidence in thousandths, from the quality score in hundredths
EngineConfidence(score, is_suspected_fake) ==
    LET Capped(confidence) == IF is_suspected_fake THEN MinOf(confidence, 400) ELSE confidence
    IN Capped(MaxOf(50, MinOf(950, 7 * score + 300)))

\* The rules of the risk score: the points and the signal of each rule that fires
EngineRules(inputs, journal_text) ==
    LET Rules(mood_value, anxiety_value) ==
            FlagIf(mood_value # None /\ mood_value[1] <= 3,
                   [points |-> 1, signal |-> "Low mood rating"])
            \o FlagIf(anxiety_value # None /\ anxiety_value[1] >= 8,
                      [points |-> 1, signal |-> "High anxiety rating"])
            \o FlagIf(engine_is_yes(InputsGet(inputs, "daily_hopeless"))
                          \/ engine_is_yes(InputsGet(inputs, "rapid_hopeless")),
                      [points |-> 2, signal |-> "Reported hopelessness"])
            \o FlagIf(engine_is_yes(InputsGet(inputs, "daily_isolation"))
                          \/ engine_is_yes(InputsGet(inputs, "rapid_isolation")),
                      [points |-> 1, signal |-> "Reported isolation"])
            \o FlagIf(journal_text # "" /\ engine_contains_risk_keywords(journal_text),
                      [points |-> 3, signal |-> "Risk keywords in journal"])
    IN Rules(engine_parse_numeric(FirstTruthy(InputsGet(inputs, "daily_mood"),
                                              InputsGet(inputs, "rapid_mood"),
                                              InputsGet(inputs, "followup_mood"))),
             engine_parse_numeric(FirstTruthy(InputsGet(inputs, "daily_anxiety"),
                                              InputsGet(inputs, "rapid_anxiety"),
                                              InputsGet(inputs, "followup_anxiety"))))

RECURSIVE SumPoints(_)
SumPoints(rules) == IF rules = << >> THEN 0 ELSE rules[1].points + SumPoints(Tail(rules))

\* Optional arguments are None or Some(value); an empty dict counts as absent
evaluate(journal_text, daily_answers, rapid_answers, duration_seconds, followup_answers) ==
    LET Given(d) == IF d = None THEN EmptyDict ELSE d[1]
        text == IF journal_text = None THEN "" ELSE journal_text[1]
        Result(inputs, rules, score, quality, confidence) ==
            [risk_score |-> score,
             risk_level |-> IF score >= 4 THEN "high" ELSE IF score >= 2 THEN "medium" ELSE "low",
             signals |-> DictFromKeys([i \in 1..Len(rules) |-> rules[i].signal]),
             confidence |-> confidence,
             quality |-> quality,
             recommended_followups |->
                 IF confidence < 550 \/ quality.is_suspected_fake
                 THEN select_followups(inputs) ELSE << >>]
        Assessed(inputs, rules, quality) ==
            Result(inputs, rules, MinOf(20, SumPoints(rules)), quality,
                   EngineConfidence(quality.score, quality.is_suspected_fake))
        Merged(inputs) ==
            Assessed(inputs, EngineRules(inputs, text), assess_quality(text, inputs, duration_seconds))
    IN Merged(DictUpdate(DictUpdate(Given(daily_answers), Given(rapid_answers)),
                         Given(followup_answers)))

(***************************************************************************)
(* Specification: evaluation_engine.evaluate as a pure function            *)
(***************************************************************************)
\* dict literal: the keys in the order written, with their texts
DictOf(keys, vals) == [keys |-> keys, map |-> [k \in SeqToSet(keys) |-> vals[CHOOSE i \in 1..Len(keys) : keys[i] = k]]]

EngineJournalTexts ==
    {None, Some(""), Some("x"), Some("a a a"), Some("a a a a a"), Some("!!!! ???"),
     Some("I went for a long walk and felt calm"), Some("I can't go on aaaaa")}

EngineDailyAnswers ==
    {None,
     Some(DictOf(<<"daily_mood", "daily_hopeless">>, <<"9", "y">>)),
     Some(DictOf(<<"daily_mood", "daily_hopeless">>, <<"2", "yes">>)),
     Some(DictOf(<<"daily_anxiety">>, <<"8">>))}

EngineRapidAnswers ==
    {None, Some(DictOf(<<"rapid_mood", "rapid_isolation">>, <<"3", "yes">>))}

EngineFollowupAnswers ==
    {None, Some(DictOf(<<"followup_mood", "daily_mood">>, <<"5", "">>))}

EngineDurations == {None, Some(5), Some(15), Some(60)}

EvaluateCalls ==
    [fn : {"evaluate"}, journal_text : EngineJournalTexts, daily_answers : EngineDailyAnswers,
     rapid_answers : EngineRapidAnswers, duration_seconds : EngineDurations,
     followup_answers : EngineFollowupAnswers]

InitEvaluate ==
    /\ call \in {Some(c) : c \in EvaluateCalls}
    /\ returned = None
    /\ RapidIdle /\ CrisisIdle /\ StatsIdle /\ DriftIdle /\ DbIdle

Evaluate ==
    /\ call # None /\ call[1].fn = "evaluate"
    /\ returned = None
    /\ returned' = Some(evaluate(call[1].journal_text, call[1].daily_answers,
                                 call[1].rapid_answers, call[1].duration_seconds,
                                 call[1].followup_answers))
    /\ UNCHANGED <<call, rapidVars, crisisVars, statsVars, driftVars, dbVars>>

NextEvaluate == Evaluate

SpecEvaluate == InitEvaluate /\ [][NextEvaluate]_vars

EvaluateReturned == call # None /\ call[1].fn = "evaluate" /\ returned # None

C26_WitnessNoFollowups ==
    /\ EvaluateReturned
    /\ returned[1].quality.score = 40
    /\ ~returned[1].quality.is_suspected_fake
    /\ returned[1].confidence = 580
    /\ returned[1].recommended_followups = << >>

\* Three short flags and a fast completion leave the score just under 0.4
C26_WitnessFloat ==
    /\ EvaluateReturned
    /\ returned[1].quality.flags = <<"too_short", "low_word_count", "repeated_tokens", "too_fast">>
    /\ returned[1].quality.is_suspected_fake
    /\ returned[1].recommended_followups # << >>

(***************************************************************************)
(* SpecLastWrite: daily batches and micro answers that map to the same     *)
(* signal keys, served one at a time, and the passing of a day             *)
(***************************************************************************)
MaxWrites == 3

\* mood from question 9; social_score from questions 15 (isolation) and 20 (support);
\* the last batch answers question 9 twice
LastWriteBatches ==
    { [answers |-> <<Item(9, "7")>>, override_datetime |-> None],
      [answers |-> <<Item(9, "2")>>, override_datetime |-> None],
      [answers |-> <<Item(15, "yes")>>, override_datetime |-> None],
      [answers |-> <<Item(20, "yes")>>, override_datetime |-> None],
      [answers |-> <<Item(15, "no"), Item(9, "4")>>, override_datetime |-> None],
      [answers |-> <<Item(9, "7"), Item(9, "3")>>, override_datetime |-> None] }

\* mood from micro question 1; social_score from micro question 5 (connection)
LastWriteMicroPayloads ==
    { [question_id |-> 1, value |-> "3"] @@ NoDates,
      [question_id |-> 1, value |-> "5"] @@ NoDates,
      [question_id |-> 5, value |-> "Connected"] @@ NoDates,
      [question_id |-> 5, value |-> "Isolated"] @@ NoDates }

InitLastWrite ==
    /\ answers = << >>
    /\ micro_answers = << >>
    /\ user_baseline = << >>
    /\ baseline_snapshots = << >>
    /\ crisis_events = << >>
    /\ journal_entries = << >>
    /\ clock = 20 * DAY + 9 * 3600
    /\ dev_mode = FALSE
    /\ handled = [submit |-> 0, micro |-> 0, insights |-> 0, advance |-> 0]
    /\ exchange = None
    /\ rapid_evaluations = << >>
    /\ RapidIdle /\ CrisisIdle /\ StatsIdle /\ DriftIdle /\ CallIdle

LastWriteSubmit ==
    /\ handled.submit + handled.micro < MaxWrites
    /\ \E user \in USERS : \E payload \in LastWriteBatches : submit_answers(user, payload)
    /\ UNCHANGED <<rapidVars, crisisVars, statsVars, driftVars, rapid_evaluations, callVars>>

LastWriteMicro ==
    /\ handled.submit + handled.micro < MaxWrites
    /\ \E user \in USERS : \E payload \in LastWriteMicroPayloads : micro_answer(user, payload)
    /\ UNCHANGED <<rapidVars, crisisVars, statsVars, driftVars, rapid_evaluations, callVars>>

NextLastWrite == LastWriteSubmit \/ LastWriteMicro \/ AdvanceClock

SpecLastWrite == InitLastWrite /\ [][NextLastWrite]_vars

\* The answers of a user for a day that give a value for a signal key and pass the
\* quality filter, each with the instant it was submitted at
SignalWrites(user, day, key, include_low_quality) ==
    { [at |-> answers[i].created_at, value |-> DailySignalOf(answers[i])[1].value] :
        i \in { j \in 1..Len(answers) :
                  /\ answers[j].user_id = user /\ answers[j].entry_date = day
                  /\ answers[j].kind = Some("daily")
                  /\ QualityFilter(answers[j], include_low_quality)
                  /\ DailySignalOf(answers[j]) # None
                  /\ DailySignalOf(answers[j])[1].key = key } }
    \cup
    { [at |-> micro_answers[i].answered_at, value |-> MicroSignalOf(micro_answers[i])[1].value] :
        i \in { j \in 1..Len(micro_answers) :
                  /\ micro_answers[j].user_id = user /\ micro_answers[j].entry_date = day
                  /\ QualityFilter(micro_answers[j], include_low_quality)
                  /\ MicroSignalOf(micro_answers[j]) # None
                  /\ MicroSignalOf(micro_answers[j])[1].key = key } }

LatestWrite(writes) == CHOOSE w \in writes : \A v \in writes : v.at <= w.at

StoredDays ==
    {answers[i].entry_date : i \in 1..Len(answers)}
        \cup {micro_answers[i].entry_date : i \in 1..Len(micro_answers)}

\* C21: for every user, day and signal key, the value in the collected signal vector is
\* the normalised value of the most recently submitted non-excluded answer that maps to
\* the key on that day, whichever channel and whichever category it came from.
C21_LastWriteWins ==
    \A user \in USERS : \A day \in StoredDays : \A include_low_quality \in BOOLEAN :
        LET collected == collect_signals_for_window(user, day, day, include_low_quality,
                                                    answers, micro_answers)
        IN \A key \in SignalKeySet :
              LET writes == SignalWrites(user, day, key, include_low_quality)
              IN writes # {} =>
                    /\ day \in DOMAIN collected
                    /\ key \in DOMAIN collected[day]
                    /\ collected[day][key] = LatestWrite(writes).value

\* What the loops do: the micro answers are applied after the daily answers, so a micro
\* answer for a key wins over every daily answer for it, whenever each was submitted
C21_MicroAfterDaily ==
    \A user \in USERS : \A day \in StoredDays :
        LET collected == collect_signals_for_window(user, day, day, TRUE, answers, micro_answers)
        IN \A i \in 1..Len(micro_answers) :
              (/\ micro_answers[i].user_id = user /\ micro_answers[i].entry_date = day
               /\ MicroSignalOf(micro_answers[i]) # None
               /\ \A j \in (i + 1)..Len(micro_answers) :
                     ~(/\ micro_answers[j].user_id = user /\ micro_answers[j].entry_date = day
                       /\ MicroSignalOf(micro_answers[j]) # None
                       /\ MicroSignalOf(micro_answers[j])[1].key = MicroSignalOf(micro_answers[i])[1].key))
              => collected[day][MicroSignalOf(micro_answers[i])[1].key]
                     = MicroSignalOf(micro_answers[i])[1].value

\* A daily mood answer submitted after a micro mood answer of the same day, the
\* collected mood still being the micro answer's
C21_WitnessStaleMicro ==
    \E i \in 1..Len(answers) : \E j \in 1..Len(micro_answers) :
        /\ answers[i].question_id = 9 /\ micro_answers[j].question_id = 1
        /\ answers[i].entry_date = micro_answers[j].entry_date
        /\ answers[i].created_at > micro_answers[j].answered_at
        /\ ~answers[i].is_low_quality /\ ~micro_answers[j].is_low_quality
        /\ DailySignalOf(answers[i])[1].value # MicroSignalOf(micro_answers[j])[1].value
        /\ collect_signals_for_window(answers[i].user_id, answers[i].entry_date,
                                      answers[i].entry_date, FALSE, answers,
                                      micro_answers)[answers[i].entry_date]["mood_score"]
               = MicroSignalOf(micro_answers[j])[1].value

SameQuestionAndDay(a, b) ==
    a.user_id = b.user_id /\ a.question_id = b.question_id /\ a.entry_date = b.entry_date

\* C29: after any sequence of /answers batches and /micro/answers requests there is at
\* most one stored Answer row and at most one stored MicroAnswer row per (user,
\* question id, entry date); answering a question again for the same date, in a later
\* request or twice inside one batch, overwrites the row instead of adding a second one.
C29_OneRowPerQuestionAndDay ==
    /\ \A i, j \in 1..Len(answers) : SameQuestionAndDay(answers[i], answers[j]) => i = j
    /\ \A i, j \in 1..Len(micro_answers) :
          SameQuestionAndDay(micro_answers[i], micro_answers[j]) => i = j

\* The part that holds: one MicroAnswer row per (user, question id, entry date), and a
\* request never adds an Answer row for a question and date that had one before it
C29_LaterRequestOverwrites ==
    [][/\ \A i, j \in 1..Len(micro_answers') :
             SameQuestionAndDay(micro_answers'[i], micro_answers'[j]) => i = j
       /\ \A i \in 1..Len(answers) : \A j \in (Len(answers) + 1)..Len(answers') :
             ~SameQuestionAndDay(answers[i], answers'[j])]_vars

\* A batch that answers a new question twice has stored two rows for it
C29_WitnessTwoRows ==
    /\ exchange # None /\ exchange[1].handler = "submit_answers"
    /\ exchange[1].status_code = 200
    /\ \E i, j \in 1..Len(answers) :
          /\ i < j
          /\ SameQuestionAndDay(answers[i], answers[j])
          /\ answers[i].answer_text = "7" /\ answers[j].answer_text = "3"

(***************************************************************************)
(* Journal entries: POST /journal (main.py)                                *)
(***************************************************************************)
JOURNAL_HOURLY_LIMIT == 10

\* POST /journal
create_journal_entry(user, payload) ==
    LET request == payload
        content == StrStrip(payload.content)
        override_dt == IF dev_mode THEN payload.override_datetime ELSE None
        now == IF override_dt # None THEN override_dt[1] ELSE clock
        cutoff == now - 3600
        OfUser(entry) == entry.user_id = user
        recent_count ==
            Cardinality({i \in 1..Len(journal_entries) :
                            OfUser(journal_entries[i]) /\ journal_entries[i].created_at >= cutoff})
        today == local_today
        entry_date ==
            IF override_dt # None THEN DateOf(override_dt[1])
            ELSE IF ~dev_mode THEN today
            ELSE IF payload.entry_date # None THEN payload.entry_date[1]
            ELSE today
        Later(a, b) == a.created_at > b.created_at
        RecentTexts(recent_rows) == [i \in 1..Len(recent_rows) |-> recent_rows[i].content]
        short_window_count ==
            Cardinality({i \in 1..Len(journal_entries) :
                            /\ OfUser(journal_entries[i])
                            /\ journal_entries[i].created_at >= clock - TEN_MINUTES})
        done == clock + 1
        \* db.commit() and what follows it
        Commit(entry, quality, crisis_payload, journal_after) ==
            /\ journal_entries' = journal_after
            /\ user_baseline' =
                   UpsertBaseline(user_baseline,
                                  update_user_baseline(user, answers, journal_after,
                                                       rapid_evaluations, user_baseline,
                                                       local_today, done))
            /\ crisis_events' =
                   IF crisis_payload.is_crisis
                   THEN record_crisis_event(crisis_events, user, entry.entry_date, "journal",
                                            crisis_payload.level, crisis_payload.matched_terms,
                                            Take(entry.content, 200), None, done)
                   ELSE crisis_events
            /\ exchange' =
                   Some([handler |-> "create_journal_entry", user |-> user, request |-> request,
                         status_code |-> 200,
                         body |-> [id |-> Len(journal_after),
                                   content |-> entry.content,
                                   created_at |-> entry.created_at,
                                   input_quality_score |-> entry.input_quality_score,
                                   input_quality_flags |-> quality.flags,
                                   is_low_quality |-> entry.is_low_quality,
                                   reason_summary |-> quality.reason_summary,
                                   crisis |-> IF crisis_payload.is_crisis
                                              THEN Some(crisis_payload) ELSE None]])
            /\ clock' = clock + 60
            /\ handled' = Served("journal")
            /\ UNCHANGED <<answers, micro_answers, baseline_snapshots, dev_mode>>
        Entry(entry, quality) ==
            Commit(entry, quality, detect_crisis(<<entry.content>>, << >>),
                   Append(journal_entries, entry))
        Assessed(quality) ==
            Entry([user_id |-> user,
                   content |-> content,
                   entry_date |-> entry_date,
                   created_at |-> now,
                   input_quality_score |-> Some(quality.quality_score),
                   input_quality_flags_json |-> quality.flags,
                   is_low_quality |-> quality.is_low_quality],
                  quality)
    IN IF content = ""
       THEN Reject("create_journal_entry", user, request, 400, "Journal content cannot be empty")
       ELSE IF payload.override_datetime # None /\ ~dev_mode
       THEN Reject("create_journal_entry", user, request, 403, "Developer mode disabled")
       ELSE IF recent_count >= JOURNAL_HOURLY_LIMIT
       THEN Reject("create_journal_entry", user, request, 429,
                   "Journal rate limit reached (10 per hour). Please try again later.")
       ELSE IF ~dev_mode /\ payload.entry_date # None /\ payload.entry_date[1] # today
       THEN Reject("create_journal_entry", user, request, 400,
                   "entry_date must be today unless dev mode is enabled.")
       ELSE Assessed(assess_input_quality(
                         content,
                         RecentTexts(Take(SortRows(Select(journal_entries, OfUser), Later), 3)),
                         short_window_count))

(***************************************************************************)
(* SpecIntake: the four submission handlers (POST /answers, /micro/answers,*)
(* /journal, /rapid/submit) and POST /rapid/start, served one at a time    *)
(* for one user, with requests the handlers accept and requests they       *)
(* reject                                                                  *)
(***************************************************************************)
MaxIntake == 2
MaxRapidRun == 4
MaxIntakeWaits == 3

\* The bodies of POST /answers: a yes to daily_hopeless (a repeat of it is of low
\* quality), a low mood, then no answers, an unknown question, an overridden instant
\* and yesterday's date
IntakeBatches(today) ==
    { [answers |-> <<Item(16, "yes")>>, override_datetime |-> None],
      [answers |-> <<Item(9, "2")>>, override_datetime |-> None],
      [answers |-> << >>, override_datetime |-> None],
      [answers |-> <<Item(99, "7")>>, override_datetime |-> None],
      [answers |-> <<Item(9, "2")>>, override_datetime |-> Some(clock - 3600)],
      [answers |-> <<[Item(9, "2") EXCEPT !.entry_date = Some(today - 1)]>>,
       override_datetime |-> None] }

\* The bodies of POST /micro/answers: a mood, then an invalid choice, an unknown
\* question, an overridden date and yesterday's date
IntakeMicroPayloads(today) ==
    { [question_id |-> 1, value |-> "3"] @@ NoDates,
      [question_id |-> 5, value |-> "Maybe"] @@ NoDates,
      [question_id |-> 77, value |-> "3"] @@ NoDates,
      [question_id |-> 1, value |-> "3", entry_date |-> None,
       override_entry_date |-> Some(today - 1)],
      [question_id |-> 1, value |-> "3", entry_date |-> Some(today - 1),
       override_entry_date |-> None] }

\* The bodies of POST /journal: an entry of good quality, an entry of low quality with
\* a risk keyword, then an empty entry, an overridden instant and yesterday's date
IntakeJournalPayloads(today) ==
    { [content |-> "Today was calm and I went for a long walk", entry_date |-> None,
       override_datetime |-> None],
      [content |-> " end ittttt", entry_date |-> None, override_datetime |-> None],
      [content |-> "  ", entry_date |-> None, override_datetime |-> None],
      [content |-> "Today was calm and I went for a long walk", entry_date |-> None,
       override_datetime |-> Some(clock - 3600)],
      [content |-> "Today was calm and I went for a long walk", entry_date |-> Some(today - 1),
       override_datetime |-> None] }

\* The bodies of POST /rapid/submit: a sheet taken in 30 seconds, in 10 seconds and
\* within the open session, six equal answers, then no answers, an unknown session, an
\* unknown question, yesterday's date and an overridden instant
IntakeRapidPayloads ==
    LET Body(answer_list, session_id, started_at) ==
            [entry_date |-> None, started_at |-> started_at, session_id |-> session_id,
             override_datetime |-> None, answers |-> answer_list]
        sheet == <<RapidItem(1, "3"), RapidItem(2, "8"), RapidItem(3, "yes"),
                   RapidItem(11, " Sometimes")>>
        equal == <<RapidItem(3, "no"), RapidItem(4, "no"), RapidItem(7, "no"), RapidItem(8, "no"),
                   RapidItem(9, "no"), RapidItem(10, "no"), RapidItem(11, "Sometimes")>>
    IN { Body(sheet, Some(id), None) : id \in OpenSessions }
       \cup { Body(sheet, None, Some(clock - 30)),
              Body(sheet, None, Some(clock - 10)),
              Body(equal, None, Some(clock - 30)),
              Body(<< >>, None, Some(clock - 30)),
              Body(sheet, Some(99), None),
              Body(<<RapidItem(1, "3"), RapidItem(12, "yes")>>, None, Some(clock - 30)),
              [Body(sheet, None, Some(clock - 30)) EXCEPT !.entry_date = Some(local_today - 1)],
              [Body(sheet, None, Some(clock - 30)) EXCEPT
                  !.override_datetime = Some(clock + 3600)] }

InitIntake ==
    /\ answers = << >>
    /\ micro_answers = << >>
    /\ user_baseline = << >>
    /\ baseline_snapshots = << >>
    /\ crisis_events = << >>
    /\ journal_entries = << >>
    /\ rapid_evaluations = << >>
    /\ clock = 20 * DAY + 9 * 3600
    /\ dev_mode \in BOOLEAN
    /\ handled = [submit |-> 0, micro |-> 0, journal |-> 0, start |-> 0, rapid |-> 0, wait |-> 0]
    /\ exchange = None
    /\ RapidIdle /\ CrisisIdle /\ StatsIdle /\ DriftIdle /\ CallIdle

IntakeRequests ==
    handled.submit + handled.micro + handled.journal + handled.start + handled.rapid

\* A session is MaxIntake requests that are served or, outside dev mode, a run of up to
\* MaxRapidRun rapid submissions and the waits between them, which meets the daily limit
RapidRun == ~dev_mode /\ handled.rapid = IntakeRequests /\ handled.rapid < MaxRapidRun

IntakeSubmit ==
    /\ ~ChangedNothing
    /\ IntakeRequests < MaxIntake
    /\ \E user \in USERS : \E payload \in IntakeBatches(local_today) :
          submit_answers(user, payload)
    /\ UNCHANGED <<rapidVars, crisisVars, statsVars, driftVars, rapid_evaluations, callVars>>

IntakeMicro ==
    /\ ~ChangedNothing
    /\ IntakeRequests < MaxIntake
    /\ \E user \in USERS : \E payload \in IntakeMicroPayloads(local_today) :
          micro_answer(user, payload)
    /\ UNCHANGED <<rapidVars, crisisVars, statsVars, driftVars, rapid_evaluations, callVars>>

IntakeJournal ==
    /\ ~ChangedNothing
    /\ IntakeRequests < MaxIntake
    /\ \E user \in USERS : \E payload \in IntakeJournalPayloads(local_today) :
          create_journal_entry(user, payload)
    /\ UNCHANGED <<rapidVars, crisisVars, statsVars, driftVars, rapid_evaluations, callVars>>

IntakeRapidStart ==
    /\ ~ChangedNothing
    /\ IntakeRequests < MaxIntake
    /\ \E user \in USERS : \E entry_date \in {None, Some(local_today - 1)} :
          rapid_start(user, [entry_date |-> entry_date])
    /\ UNCHANGED <<rapidVars, crisisVars, statsVars, driftVars, callVars>>

IntakeRapidSubmit ==
    /\ ~ChangedNothing
    /\ IntakeRequests < MaxIntake \/ RapidRun
    /\ \E user \in USERS : \E payload \in IntakeRapidPayloads : rapid_submit(user, payload)
    /\ UNCHANGED <<rapidVars, crisisVars, statsVars, driftVars, callVars>>

\* The user comes back once after a rapid evaluation, when its cooldown is over
IntakeWait ==
    /\ ~ChangedNothing
    /\ handled.rapid = IntakeRequests /\ handled.wait < handled.rapid
    /\ handled.wait < MaxIntakeWaits
    /\ clock' = clock + 300
    /\ handled' = Served("wait")
    /\ UNCHANGED <<tableVars, dev_mode, exchange, rapid_evaluations>>
    /\ UNCHANGED <<rapidVars, crisisVars, statsVars, driftVars, callVars>>

NextIntake ==
    \/ IntakeSubmit \/ IntakeMicro \/ IntakeJournal
    \/ IntakeRapidStart \/ IntakeRapidSubmit \/ IntakeWait

SpecIntake == InitIntake /\ [][NextIntake]_vars


\* sample_count, baseline_score_mean and baseline_score_std of a row of user_baseline
ScoreBaseline(row) ==
    <<row.sample_count,
      IF row.sample_count = 0 THEN None ELSE row.baseline_score_mean,
      IF row.sample_count = 0 THEN None ELSE row.baseline_score_std>>

\* The score baseline update_user_baseline would compute for the stored row's user from
\* the given daily answers and journal entries and the stored rapid evaluations
ScoreBaselineFrom(row, answer_table, journal_table) ==
    ScoreBaseline(update_user_baseline(row.user_id, answer_table, journal_table, rapid_evaluations,
                                       user_baseline, DateOf(row.last_updated_at),
                                       row.last_updated_at))

\* C25: after any sequence of daily, journal and rapid submissions, the score baseline
\* (sample_count, mean, std) stored for a user is the one computed from the records
\* that count toward the baseline alone: the submitted, valid rapid evaluations of good
\* quality and the daily answers and journal entries not flagged is_low_quality.
C25_BaselineCountsOnlyGoodRecords ==
    \A u \in DOMAIN user_baseline :
        ScoreBaseline(user_baseline[u])
            = ScoreBaselineFrom(user_baseline[u], NotLowQuality(answers),
                                NotLowQuality(journal_entries))

\* The part of C25 the code keeps: no rapid evaluation that is unsubmitted, invalid or of
\* low quality is among the samples; the stored score baseline is the one computed from
\* all daily answers and journal entries of the window and the rapid evaluations that
\* are submitted, valid and of good quality.
C25_RapidSamplesAreGood ==
    \A u \in DOMAIN user_baseline :
        ScoreBaseline(user_baseline[u])
            = ScoreBaselineFrom(user_baseline[u], answers, journal_entries)

\* A journal entry of low quality gave the only sample of the stored baseline
C25_WitnessLowQualityJournal ==
    /\ 1 \in DOMAIN user_baseline
    /\ user_baseline[1].sample_count = 1
    /\ answers = << >>
    /\ Len(journal_entries) = 1 /\ journal_entries[1].is_low_quality

\* A rapid evaluation that is submitted but invalid is stored and is not a sample
C25_WitnessInvalidRapid ==
    /\ 1 \in DOMAIN user_baseline
    /\ user_baseline[1].sample_count = 0
    /\ \E i \in 1..Len(rapid_evaluations) :
          rapid_evaluations[i].submitted_at # None /\ ~rapid_evaluations[i].is_valid

\* C30: a request that submit_answers, micro_answer, create_journal_entry or rapid_submit
\* answers with an HTTP error adds and modifies no answer, micro answer, journal entry,
\* rapid evaluation, baseline, baseline snapshot or crisis event.
C30_RejectedChangesNothing ==
    [][(/\ exchange' # exchange
        /\ exchange' # None
        /\ exchange'[1].handler \in {"submit_answers", "micro_answer", "create_journal_entry",
                                     "rapid_submit"}
        /\ exchange'[1].status_code # 200)
       => UNCHANGED <<answers, micro_answers, journal_entries, rapid_evaluations,
                      user_baseline, baseline_snapshots, crisis_events>>]_vars

\* The fourth rapid submission of a day is refused while three evaluations are stored
C30_WitnessDailyLimit ==
    /\ exchange # None
    /\ exchange[1].handler = "rapid_submit" /\ exchange[1].status_code = 429
    /\ handled.rapid = 3 /\ handled.wait = 3
    /\ Len(rapid_evaluations) = 3

\* A daily batch naming an unknown question is refused after a journal entry was stored
C30_WitnessUnknownQuestion ==
    /\ exchange # None
    /\ exchange[1].handler = "submit_answers" /\ exchange[1].status_code \in {400, 404}
    /\ Len(journal_entries) = 1 /\ 1 \in DOMAIN user_baseline


(***************************************************************************)
(* SpecSessions: POST /rapid/start and POST /rapid/submit for two users,    *)
(* every submission naming a stored row or none                            *)
(***************************************************************************)
MaxSessionRequests == 3
MaxSessionWaits == 1
SessionUsers == {1, 2}

\* The bodies of POST /rapid/submit: a sheet naming any stored row or a row that does
\* not exist, and the sheet without a session
SessionPayloads ==
    LET Body(answer_list, session_id, started_at) ==
            [entry_date |-> None, started_at |-> started_at, session_id |-> session_id,
             override_datetime |-> None, answers |-> answer_list]
        Sheet(mood) == <<RapidItem(1, mood), RapidItem(2, "8"), RapidItem(3, "yes"),
                         RapidItem(11, " Sometimes")>>
    IN { Body(Sheet("3"), Some(id), None) : id \in 1..(Len(rapid_evaluations) + 1) }
       \cup { Body(Sheet("5"), Some(id), None) : id \in 1..Len(rapid_evaluations) }
       \cup { Body(Sheet("3"), None, Some(clock - 30)) }

InitSessions ==
    /\ answers = << >>
    /\ micro_answers = << >>
    /\ user_baseline = << >>
    /\ baseline_snapshots = << >>
    /\ crisis_events = << >>
    /\ journal_entries = << >>
    /\ rapid_evaluations = << >>
    /\ clock = 20 * DAY + 9 * 3600
    /\ dev_mode \in BOOLEAN
    /\ handled = [start |-> 0, rapid |-> 0, wait |-> 0]
    /\ exchange = None
    /\ RapidIdle /\ CrisisIdle /\ StatsIdle /\ DriftIdle /\ CallIdle

SessionStart ==
    /\ handled.start + handled.rapid < MaxSessionRequests
    /\ \E user \in SessionUsers : rapid_start(user, [entry_date |-> None])
    /\ UNCHANGED <<rapidVars, crisisVars, statsVars, driftVars, callVars>>

SessionSubmit ==
    /\ handled.start + handled.rapid < MaxSessionRequests
    /\ \E user \in SessionUsers : \E payload \in SessionPayloads : rapid_submit(user, payload)
    /\ UNCHANGED <<rapidVars, crisisVars, statsVars, driftVars, callVars>>

\* The users come back after the cooldown
SessionWait ==
    /\ handled.wait < MaxSessionWaits
    /\ handled.rapid >= 1
    /\ clock' = clock + 300
    /\ handled' = Served("wait")
    /\ UNCHANGED <<tableVars, dev_mode, exchange, rapid_evaluations>>
    /\ UNCHANGED <<rapidVars, crisisVars, statsVars, driftVars, callVars>>

NextSessions == SessionStart \/ SessionSubmit \/ SessionWait

SpecSessions == InitSessions /\ [][NextSessions]_vars

\* The step is a submission that names the stored session id and is answered
SubmitNaming(id) ==
    /\ exchange' # exchange
    /\ exchange' # None
    /\ exchange'[1].handler = "rapid_submit"
    /\ exchange'[1].request.session_id = Some(id)

\* C27: a submission naming a session id succeeds only if the session belongs to the
\* user and is not submitted; once a session is submitted, every step keeps its answers,
\* score, level and submitted_at, and every later submission naming it, by any user, is
\* rejected; a submission naming another user's session is rejected.
C27_SessionSubmittedOnce ==
    [][\A id \in 1..Len(rapid_evaluations) :
          /\ rapid_evaluations[id].submitted_at # None
                => /\ id \in 1..Len(rapid_evaluations')
                   /\ rapid_evaluations'[id].answers_json = rapid_evaluations[id].answers_json
                   /\ rapid_evaluations'[id].score = rapid_evaluations[id].score
                   /\ rapid_evaluations'[id].level = rapid_evaluations[id].level
                   /\ rapid_evaluations'[id].submitted_at = rapid_evaluations[id].submitted_at
                   /\ SubmitNaming(id) => exchange'[1].status_code # 200
          /\ SubmitNaming(id) /\ rapid_evaluations[id].user_id # exchange'[1].user
                => /\ exchange'[1].status_code # 200
                   /\ rapid_evaluations' = rapid_evaluations]_vars

\* A session was started and submitted, and a later submission naming it by the same
\* user, after the cooldown, was rejected
C27_Witness ==
    /\ exchange # None
    /\ exchange[1].handler = "rapid_submit"
    /\ exchange[1].status_code = 400
    /\ exchange[1].body.detail = "Invalid or expired rapid session."
    /\ exchange[1].request.session_id = Some(1)
    /\ exchange[1].user = 1
    /\ handled.wait = 1
    /\ rapid_evaluations # << >>
    /\ rapid_evaluations[1].user_id = 1 /\ rapid_evaluations[1].submitted_at # None
    /\ rapid_evaluations[1].level # "PENDING"

\* The other user named the open session of user 1 and was rejected
C27_WitnessOtherUser ==
    /\ exchange # None
    /\ exchange[1].handler = "rapid_submit" /\ exchange[1].status_code = 400
    /\ exchange[1].request.session_id = Some(1) /\ exchange[1].user = 2
    /\ rapid_evaluations # << >>
    /\ rapid_evaluations[1].user_id = 1 /\ rapid_evaluations[1].submitted_at = None


(***************************************************************************)
(* SpecRateLimit: POST /rapid/submit outside dev mode for one user, with   *)
(* sessions that are started and never submitted, over more than a day     *)
(***************************************************************************)
MaxLimitSubmits == 5
MaxLimitStarts == 1
MaxLimitWaits == 4

\* The time between the end of one request and the start of the next: the rest of the
\* cooldown, or the time after which the first of three evaluations taken back to back
\* was submitted exactly 24 hours, or 24 hours and a second, ago
LimitWaits == {240, DAY - 660, DAY - 659}

InitRateLimit ==
    /\ answers = << >>
    /\ micro_answers = << >>
    /\ user_baseline = << >>
    /\ baseline_snapshots = << >>
    /\ crisis_events = << >>
    /\ journal_entries = << >>
    /\ rapid_evaluations = << >>
    /\ clock = 20 * DAY + 9 * 3600
    /\ dev_mode = FALSE
    /\ handled = [start |-> 0, rapid |-> 0, wait |-> 0]
    /\ exchange = None
    /\ RapidIdle /\ CrisisIdle /\ StatsIdle /\ DriftIdle /\ CallIdle

LimitStart ==
    /\ handled.start < MaxLimitStarts
    /\ \E user \in USERS : rapid_start(user, [entry_date |-> None])
    /\ UNCHANGED <<rapidVars, crisisVars, statsVars, driftVars, callVars>>

\* A sheet answered in 30 seconds, submitted without a session
LimitSubmit ==
    /\ handled.rapid < MaxLimitSubmits
    /\ \E user \in USERS :
          rapid_submit(user, [entry_date |-> None, started_at |-> Some(clock - 30),
                              session_id |-> None, override_datetime |-> None,
                              answers |-> <<RapidItem(1, "3"), RapidItem(2, "8"),
                                            RapidItem(3, "yes"), RapidItem(11, " Sometimes")>>])
    /\ UNCHANGED <<rapidVars, crisisVars, statsVars, driftVars, callVars>>

LimitWait ==
    /\ handled.wait < MaxLimitWaits
    /\ handled.wait < handled.rapid
    /\ \E seconds \in LimitWaits : clock' = clock + seconds
    /\ handled' = Served("wait")
    /\ UNCHANGED <<tableVars, dev_mode, exchange, rapid_evaluations>>
    /\ UNCHANGED <<rapidVars, crisisVars, statsVars, driftVars, callVars>>

NextRateLimit == LimitStart \/ LimitSubmit \/ LimitWait

SpecRateLimit == InitRateLimit /\ [][NextRateLimit]_vars

\* The instants at which the user's stored evaluations were submitted
SubmittedAt(user) ==
    {rapid_evaluations[i].submitted_at[1] :
        i \in {j \in 1..Len(rapid_evaluations) :
                  /\ rapid_evaluations[j].user_id = user
                  /\ rapid_evaluations[j].submitted_at # None}}

\* The number of the user's stored evaluations, one per successful submission
SubmittedCount(user) ==
    Cardinality({j \in 1..Len(rapid_evaluations) :
                    /\ rapid_evaluations[j].user_id = user
                    /\ rapid_evaluations[j].submitted_at # None})

\* C28: outside dev mode any two successful submissions of a user are at least 300
\* seconds apart and no 24 hours, both ends included, hold more than 3 of them; a
\* submission is refused with 429 only when a submitted evaluation is less than 300
\* seconds old or 3 submitted evaluations are at most 24 hours old, so that sessions
\* started and never submitted count toward neither limit.
C28_RateLimits ==
    /\ [](\A user \in USERS :
            /\ Cardinality(SubmittedAt(user)) = SubmittedCount(user)
            /\ \A s, t \in SubmittedAt(user) : s < t => t - s >= 300
            /\ \A s \in SubmittedAt(user) :
                  Cardinality({t \in SubmittedAt(user) : s <= t /\ t <= s + DAY}) <= 3)
    /\ [][(/\ exchange' # exchange
           /\ exchange' # None
           /\ exchange'[1].handler = "rapid_submit"
           /\ exchange'[1].status_code = 429)
          => \/ \E s \in SubmittedAt(exchange'[1].user) : clock - s < 300
             \/ Cardinality({s \in SubmittedAt(exchange'[1].user) : s >= clock - DAY}) >= 3]_vars

\* Four evaluations are stored, the fourth submitted 24 hours and a second after the
\* first, beside a session that was started and never submitted
C28_Witness ==
    /\ SubmittedCount(1) = 4
    /\ \E s, t \in SubmittedAt(1) : t = s + DAY + 1
    /\ \E i \in 1..Len(rapid_evaluations) : rapid_evaluations[i].submitted_at = None

\* The fourth submission, exactly 24 hours after the first, is refused
C28_WitnessDailyLimit ==
    /\ exchange # None
    /\ exchange[1].handler = "rapid_submit" /\ exchange[1].status_code = 429
    /\ SubmittedCount(1) = 3
    /\ \E s \in SubmittedAt(1) : clock = s + DAY

\* A submission less than 300 seconds after the last is refused
C28_WitnessCooldown ==
    /\ exchange # None
    /\ exchange[1].handler = "rapid_submit" /\ exchange[1].status_code = 429
    /\ SubmittedCount(1) = 1
    /\ \E s \in SubmittedAt(1) : clock - s < 300

=========================================================================
